---- MODULE Spec2Model ----
(***************************************************************************)
(* Model of the formal-environment builder: the SystemVerilog line parsers *)
(* (parse_sv.py), the VHDL translator (vhdl_to_sv.py) and the environment  *)
(* generator (fv_env_build.py).                                            *)
(*                                                                         *)
(* A Python string is a sequence of characters; a character is a string    *)
(* of length one ("BQ" stands for the backtick).  Python's None is the     *)
(* value None below, which no sequence of characters equals.               *)
(***************************************************************************)
EXTENDS Integers, Sequences, FiniteSets, TLC

VARIABLES
    line,        \* parse_sv_signal_info: the argument
    sigParts,    \* the pieces the argument was assembled from
    sigResult,   \* parse_sv_signal_info: the returned (name, range)
    sigPc        \* "ready" before the call, "done" after it

VARIABLES
    port_lines,        \* parse_sv_interface_info: the argument
    segI,              \* index of the line the loop handles next
    objs,              \* the group dictionaries created so far (a dictionary's
                       \* identity is its index: the list and current_if share it)
    interfaces,        \* the list `interfaces`: references into objs
    current_if,        \* reference into objs, 0 for None
    inside_interface,  \* the flag of the same name
    segPc              \* "loop" while lines remain or the flush is due, "done" after

VARIABLES
    vhdl_generics,   \* the lines of the generic block of the VHDL text
    vhdl_ports,      \* the lines of the port block of the VHDL text
    vhdl_content,    \* generate_sv_module: the argument
    sv_module,       \* generate_sv_module: the returned text
    parameters,      \* extract_module_blocks on sv_module: the parameter block
    ports,           \* extract_module_blocks on sv_module: the port block
    round_names,     \* parse_sv_signal_info on each line of ports: the names
    vhdlPc           \* "translate", "extract", "parse", "done"

VARIABLES
    par_block,     \* parse_sv_parameters_info: the argument param_block, line by line
    param_list,    \* parse_sv_parameters_info: the returned list of pairs
    parPc          \* "ready" before the call, "done" after it

VARIABLES
    pb_lines,      \* the lines of the port block of the top module
    pb_params,     \* the parameter block of the top module
    pb_groups,     \* the names of the groups that have a wrapper file
    pb_env,        \* the text of fv_env.sv
    pb_adapter,    \* the text of fv_adapter.sv
    pbPc           \* "env", "adapter", "done"

VARIABLES
    fs,            \* the files of the project directory: path |-> text
    dirs,          \* the directories of the project directory
    env_call,      \* the last call on the project directory and its outcome
    env_setups,    \* the number of calls of setup_formal_env so far
    env_failures   \* the number of them that a file operation ended

sigVars == <<line, sigParts, sigResult, sigPc>>
segVars == <<port_lines, segI, objs, interfaces, current_if, inside_interface, segPc>>
vhdlVars == <<vhdl_generics, vhdl_ports, vhdl_content, sv_module, parameters, ports,
              round_names, vhdlPc>>
envVars == <<fs, dirs, env_call, env_setups, env_failures>>
parVars == <<par_block, param_list, parPc>>
pbVars == <<pb_lines, pb_params, pb_groups, pb_env, pb_adapter, pbPc>>
vars == <<sigVars, segVars, vhdlVars, envVars, parVars, pbVars>>
notSig == <<segVars, vhdlVars, envVars, parVars, pbVars>>
notSeg == <<sigVars, vhdlVars, envVars, parVars, pbVars>>
notVhdl == <<sigVars, segVars, envVars, parVars, pbVars>>
notEnv == <<sigVars, segVars, vhdlVars, parVars, pbVars>>
notPar == <<sigVars, segVars, vhdlVars, envVars, pbVars>>
notPb == <<sigVars, segVars, vhdlVars, envVars, parVars>>

(***************************************************************************)
(* Bounds                                                                  *)
(***************************************************************************)
MaxIndent == 2
MaxSegLines == 4
MaxGenerics == 3
MaxPorts == 3
MaxSetups == 2
MaxFailures == 1
MaxParLines == 3
MaxPortLines == 3

(***************************************************************************)
(* String literals                                                         *)
(***************************************************************************)
None == <<"None">>
s_input == <<"i","n","p","u","t">>
s_output == <<"o","u","t","p","u","t">>
s_inout == <<"i","n","o","u","t">>
s_logic == <<"l","o","g","i","c">>
s_wire == <<"w","i","r","e">>
s_reg == <<"r","e","g">>
s_cmt == <<"/","/">>
s_rng30 == <<"[","3",":","0","]">>
s_rngW == <<"[","W","-","1",":","0","]">>
s_rngSp == <<"[","W"," ","-"," ","1",":","0","]">>
s_clk_i == <<"c","l","k","_","i">>
s_inputx == <<"i","n","p","u","t","x">>
s_cmt_c == <<" ","/","/"," ","c">>
s_cmt_in == <<"/","/"," ","i","n","p","u","t"," ","b">>
s_close == <<")",";">>
s_INTERFACE == <<"I","N","T","E","R","F","A","C","E">>
s_a_INTERFACE == <<"/","/"," ","a"," ","I","N","T","E","R","F","A","C","E">>
s_bc_interface == <<" "," ","/","/"," ","B"," ","c"," ","i","n","t","e","r","f","a","c","e",","," ","x">>
s_b_INTERFACE == <<"/","/"," ","b","_","I","N","T","E","R","F","A","C","E">>
s_note == <<"/","/"," ","n","o","t","e">>
s_in_x == <<"i","n","p","u","t"," ","x",",">>
s_in_y == <<" "," ","i","n","p","u","t"," ","[","3",":","0","]"," ","y">>
s_out_z == <<"o","u","t","p","u","t"," ","z",",">>
s_generic == <<"g","e","n","e","r","i","c">>
s_port == <<"p","o","r","t">>
s_downto == <<"d","o","w","n","t","o">>
s_dashdash == <<"-","-">>
s_assign == <<":","=">>
s_module == <<"m","o","d","u","l","e">>
s_endmodule == <<"e","n","d","m","o","d","u","l","e">>
s_top == <<"t","o","p">>
s_parameter == <<"p","a","r","a","m","e","t","e","r">>
s_hash_open == <<"#","(">>
s_entity_top == <<"e","n","t","i","t","y"," ","t","o","p"," ","i","s">>
s_end_entity == <<"e","n","d"," ","e","n","t","i","t","y",";">>
s_generic_open == <<" "," ","g","e","n","e","r","i","c"," ","(">>
s_port_open == <<" "," ","p","o","r","t"," ","(">>
s_block_close == <<" "," ",")",";">>
s_vp_clk == <<"c","l","k"," ",":"," ","i","n"," ","b","i","t",";">>
s_vp_d == <<"d"," ",":"," ","o","u","t"," ","b","i","t","_","v","e","c","t","o","r","(","7"," ","d","o","w","n","t","o"," ","0",")",";">>
s_vp_q == <<"q"," ",":"," ","i","n","o","u","t"," ","b","i","t">>
s_vp_note == <<"-","-"," ","n","o","t","e">>
s_vp_dsp == <<"e"," ",":"," ","o","u","t"," ","b","i","t","_","v","e","c","t","o","r","(","W"," ","-"," ","1"," ","d","o","w","n","t","o"," ","0",")",";">>
s_vp_ab == <<"a",","," ","b"," ",":"," ","i","n"," ","b","i","t",";">>
s_vg_w == <<"W"," ",":"," ","i","n","t","e","g","e","r"," ",":","="," ","8",";">>
s_vg_d == <<"D"," ",":"," ","i","n","t","e","g","e","r"," ",":","="," ","1","6">>
s_vg_n == <<"N"," ",":"," ","n","a","t","u","r","a","l"," ",":","="," ","4"," ","-","-"," ","n",";"," ","m">>
s_a_b == <<"a",","," ","b">>
s_clk == <<"c","l","k">>
s_pfx_param == <<" "," ","p","a","r","a","m","e","t","e","r"," ">>
s_eq == <<" ","="," ">>
s_pfx_input == <<" "," ","i","n","p","u","t"," ">>
s_pfx_output == <<" "," ","o","u","t","p","u","t"," ">>
s_pfx_cmt == <<" "," ","/","/"," ">>
s_pfx_cmt2 == <<" "," ","/","/">>
s_ind_hash == <<" "," ","#","(">>
s_ind_close == <<" "," ",")">>
s_ind_open == <<" "," ","(">>
s_colon_out == <<":"," ","o","u","t">>
s_Lowers ==<<"a","b","c","d","e","f","g","h","i","j","k","l","m","n","o","p","q","r","s","t","u","v","w","x","y","z">>
s_Uppers == <<"A","B","C","D","E","F","G","H","I","J","K","L","M","N","O","P","Q","R","S","T","U","V","W","X","Y","Z">>

(***************************************************************************)
(* Python str methods                                                      *)
(***************************************************************************)
WS == {" ", "\t", "\n"}

MinOf(S) == CHOOSE m \in S : \A k \in S : m <= k
MaxOf(S) == 0 - MinOf({0 - k : k \in S})

\* s[i:i+len(p)] == p
MatchAt(s, p, i) ==
    /\ i >= 1
    /\ i + Len(p) - 1 <= Len(s)
    /\ SubSeq(s, i, i + Len(p) - 1) = p

\* s.startswith(p), s.endswith(p)
StartsWith(s, p) == MatchAt(s, p, 1)
EndsWith(s, p) == Len(p) <= Len(s) /\ MatchAt(s, p, Len(s) - Len(p) + 1)

\* s.find(p, from) + 1: the first index at or after from where p occurs, 0 if none
Find(s, p, from) ==
    LET I == {i \in from..(Len(s) - Len(p) + 1) : MatchAt(s, p, i)}
    IN  IF I = {} THEN 0 ELSE MinOf(I)

\* p in s
Contains(s, p) == Find(s, p, 1) # 0

\* s.lstrip(cs), s.rstrip(cs) for a set cs of characters
LStripSet(s, cs) ==
    LET I == {i \in 1..Len(s) : s[i] \notin cs}
    IN  IF I = {} THEN <<>> ELSE SubSeq(s, MinOf(I), Len(s))
RStripSet(s, cs) ==
    LET I == {i \in 1..Len(s) : s[i] \notin cs}
    IN  IF I = {} THEN <<>> ELSE SubSeq(s, 1, MaxOf(I))

\* s.strip(), s.lstrip(), s.rstrip()
Strip(s) == LStripSet(RStripSet(s, WS), WS)
LStrip(s) == LStripSet(s, WS)
RStrip(s) == RStripSet(s, WS)

\* s.split(sep): every piece
RECURSIVE SplitOn(_, _)
SplitOn(s, sep) ==
    LET i == Find(s, sep, 1)
    IN  IF i = 0 THEN <<s>>
        ELSE <<SubSeq(s, 1, i - 1)>> \o SplitOn(SubSeq(s, i + Len(sep), Len(s)), sep)

\* s.split(sep, 1)
SplitOnce(s, sep) ==
    LET i == Find(s, sep, 1)
    IN  IF i = 0 THEN <<s>>
        ELSE <<SubSeq(s, 1, i - 1), SubSeq(s, i + Len(sep), Len(s))>>

\* s.split(): the whitespace-separated tokens
RECURSIVE Tokens(_)
Tokens(s) ==
    LET t == LStrip(s)
        J == {j \in 1..Len(t) : t[j] \in WS}
        e == IF J = {} THEN Len(t) + 1 ELSE MinOf(J)
    IN  IF t = <<>> THEN <<>>
        ELSE <<SubSeq(t, 1, e - 1)>> \o Tokens(SubSeq(t, e, Len(t)))

\* sep.join(parts)
RECURSIVE Join(_, _)
Join(parts, sep) ==
    IF parts = <<>> THEN <<>>
    ELSE IF Len(parts) = 1 THEN parts[1]
    ELSE parts[1] \o sep \o Join(Tail(parts), sep)

\* n spaces
Spaces(n) == [i \in 1..n |-> " "]

\* s.upper(), s.lower()
UpperChar(c) ==
    IF \E i \in 1..Len(s_Lowers) : s_Lowers[i] = c
    THEN s_Uppers[CHOOSE i \in 1..Len(s_Lowers) : s_Lowers[i] = c]
    ELSE c
LowerChar(c) ==
    IF \E i \in 1..Len(s_Uppers) : s_Uppers[i] = c
    THEN s_Lowers[CHOOSE i \in 1..Len(s_Uppers) : s_Uppers[i] = c]
    ELSE c
Upper(s) == [i \in 1..Len(s) |-> UpperChar(s[i])]
Lower(s) == [i \in 1..Len(s) |-> LowerChar(s[i])]

\* s.replace(old, new) for single characters old and new
ReplaceChar(s, old, new) == [i \in 1..Len(s) |-> IF s[i] = old THEN new ELSE s[i]]

\* s.replace(old, "") for a non-empty string old: every occurrence, left to right
RECURSIVE Remove(_, _)
Remove(s, old) ==
    LET i == Find(s, old, 1)
    IN  IF i = 0 THEN s
        ELSE SubSeq(s, 1, i - 1) \o Remove(SubSeq(s, i + Len(old), Len(s)), old)

(***************************************************************************)
(* parse_sv.py: parse_sv_signal_info                                       *)
(***************************************************************************)
\* The variant that forgets to remove the inline comment before parsing.
parse_sv_signal_info_keeps_comment(ln) ==
    LET line1 == Strip(RStripSet(Strip(ln), {",", ";"}))
        tokens == SelectSeq(Tokens(line1),
                            LAMBDA tok : tok \notin {s_input, s_logic, s_wire, s_reg})
    IN  IF ~StartsWith(line1, s_input) THEN <<None, None>>
        ELSE IF tokens # <<>> /\ StartsWith(tokens[1], <<"[">>)
             THEN <<IF Len(tokens) > 1 THEN tokens[2] ELSE None, tokens[1]>>
             ELSE <<IF tokens # <<>> THEN tokens[1] ELSE None, <<>> >>

parse_sv_signal_info(ln) ==
    LET line0 == Strip(SplitOn(ln, s_cmt)[1])
        line1 == Strip(RStripSet(line0, {",", ";"}))
        tokens == SelectSeq(Tokens(line1),
                            LAMBDA tok : tok \notin {s_input, s_logic, s_wire, s_reg})
    IN  IF ~StartsWith(line1, s_input) THEN <<None, None>>
        ELSE IF tokens # <<>> /\ StartsWith(tokens[1], <<"[">>)
             THEN <<IF Len(tokens) > 1 THEN tokens[2] ELSE None, tokens[1]>>
             ELSE <<IF tokens # <<>> THEN tokens[1] ELSE None, <<>> >>

(***************************************************************************)
(* Inputs of the Signal Parser                                             *)
(***************************************************************************)
SigDirs == {s_input, s_output, s_inout}
SigTypes == {<<>>, s_logic, s_wire, s_reg}
SigRanges == {<<>>, s_rng30, s_rngW}
SigNames == {<<"a">>, s_clk_i}
SigEnds == {<<>>, <<",">>, <<";">>, <<" ", ",">>}
SigComments == {<<>>, s_cmt_c, s_cmt_in}

\* `<indent><dir> [<type>] [<range>] <name><end><comment>`
SigLineOf(p) ==
    Spaces(p.indent) \o p.dir \o <<" ">>
        \o (IF p.type = <<>> THEN <<>> ELSE p.type \o <<" ">>)
        \o (IF p.range = <<>> THEN <<>> ELSE p.range \o <<" ", " ">>)
        \o p.name \o p.end \o p.comment

SigParts ==
    [kind : {"decl"}, indent : {0, MaxIndent}, dir : SigDirs, type : SigTypes,
     range : SigRanges, name : SigNames, end : SigEnds, comment : SigComments]

\* Lines that are no `<dir> [R] N` declaration.
RawLines ==
    {<<>>, s_close, s_cmt_in, s_input, s_input \o <<" ">> \o s_logic \o <<",">>,
     s_inputx \o <<" ", "y">>, s_input \o s_rng30 \o <<" ", "a">>,
     s_input \o <<" ">> \o s_rngSp \o <<" ", "d", ",">>,
     s_logic \o <<" ", "a">>, <<",">>, s_input \o <<",">>,
     <<" ", " ">> \o s_cmt \o <<" ", "x", " ">> \o s_INTERFACE}

\* The variables of a component that a specification leaves alone.
IdleVhdl ==
    /\ vhdl_generics = <<>>
    /\ vhdl_ports = <<>>
    /\ vhdl_content = <<>>
    /\ sv_module = None
    /\ parameters = None
    /\ ports = None
    /\ round_names = None
    /\ vhdlPc = "idle"

IdleSig ==
    /\ line = <<>>
    /\ sigParts = [kind |-> "raw"]
    /\ sigResult = <<>>
    /\ sigPc = "idle"

IdleSeg ==
    /\ port_lines = <<>>
    /\ segI = 1
    /\ objs = <<>>
    /\ interfaces = <<>>
    /\ current_if = 0
    /\ inside_interface = FALSE
    /\ segPc = "idle"

IdleEnv ==
    /\ fs = << >>
    /\ dirs = {}
    /\ env_call = [op |-> "none"]
    /\ env_setups = 0
    /\ env_failures = 0

IdlePar ==
    /\ par_block = <<>>
    /\ param_list = <<>>
    /\ parPc = "idle"

IdlePb ==
    /\ pb_lines = <<>>
    /\ pb_params = <<>>
    /\ pb_groups = <<>>
    /\ pb_env = None
    /\ pb_adapter = None
    /\ pbPc = "idle"

InitSig ==
    /\ \/ \E p \in SigParts : sigParts = p /\ line = SigLineOf(p)
       \/ \E l \in RawLines : sigParts = [kind |-> "raw"] /\ line = l
    /\ sigResult = <<>>
    /\ sigPc = "ready"
    /\ IdleSeg
    /\ IdleVhdl
    /\ IdleEnv
    /\ IdlePar
    /\ IdlePb

CallParseSignal ==
    /\ sigPc = "ready" /\ UNCHANGED notSig
    /\ sigResult' = parse_sv_signal_info(line)
    /\ sigPc' = "done"
    /\ UNCHANGED <<line, sigParts>>

NextSig == CallParseSignal

SpecSig == InitSig /\ [][NextSig]_vars

(***************************************************************************)
(* parse_sv.py: parse_sv_interface_info                                    *)
(***************************************************************************)
\* re.match(r"//\s*(.*?)\s+INTERFACE", stripped, re.IGNORECASE): group(1), or
\* None when the pattern does not match.  The greedy \s* first takes all the
\* whitespace after `//`; the lazy group then ends at the first whitespace run
\* that INTERFACE follows.  Only when no such run exists does \s* give one
\* character back, which matches `// INTERFACE` with an empty group.
InterfaceLabel(stripped) ==
    LET t == SubSeq(stripped, 3, Len(stripped))
        NonWs == {i \in 1..Len(t) : t[i] \notin WS}
        a0 == IF NonWs = {} THEN Len(t) + 1 ELSE MinOf(NonWs)
        AtKeyword(q) == MatchAt(Upper(t), s_INTERFACE, q)
        Q == {q \in (a0 + 1)..Len(t) : AtKeyword(q) /\ t[q - 1] \in WS}
        RunStart(q) == MinOf({p \in 1..(q - 1) : \A j \in p..(q - 1) : t[j] \in WS})
    IN  IF ~StartsWith(stripped, s_cmt) THEN None
        ELSE IF Q # {} THEN SubSeq(t, a0, RunStart(MinOf(Q)) - 1)
        ELSE IF a0 > 1 /\ AtKeyword(a0) THEN <<>>
        ELSE None

\* stripped.startswith("//") and "INTERFACE" in stripped.upper()
IsInterfaceComment(stripped) ==
    StartsWith(stripped, s_cmt) /\ Contains(Upper(stripped), s_INTERFACE)

\* stripped.startswith("//") or stripped == "" or stripped == ");"
IsTerminator(stripped) ==
    StartsWith(stripped, s_cmt) \/ stripped = <<>> \/ stripped = s_close

\* match.group(1).strip().lower().replace(" ", "_")
NormalizeName(label) == ReplaceChar(Lower(Strip(label)), " ", "_")

SegLine == port_lines[segI]
SegStripped == Strip(SegLine)

\* Lines 63-76, the pattern matches: the open group is appended and a new
\* dictionary becomes current.
SegOpen ==
    /\ segPc = "loop" /\ UNCHANGED notSeg /\ segI <= Len(port_lines)
    /\ IsInterfaceComment(SegStripped)
    /\ InterfaceLabel(SegStripped) # None
    /\ interfaces' = IF current_if # 0 THEN Append(interfaces, current_if) ELSE interfaces
    /\ objs' = Append(objs, [if_name |-> NormalizeName(InterfaceLabel(SegStripped)),
                             content |-> <<>>])
    /\ current_if' = Len(objs) + 1
    /\ inside_interface' = TRUE
    /\ segI' = segI + 1
    /\ UNCHANGED <<port_lines, segPc>>

\* Lines 63-76, the pattern does not match: the open group is appended, and
\* current_if and inside_interface keep their values.
SegOpenNoMatch ==
    /\ segPc = "loop" /\ UNCHANGED notSeg /\ segI <= Len(port_lines)
    /\ IsInterfaceComment(SegStripped)
    /\ InterfaceLabel(SegStripped) = None
    /\ interfaces' = IF current_if # 0 THEN Append(interfaces, current_if) ELSE interfaces
    /\ segI' = segI + 1
    /\ UNCHANGED <<port_lines, objs, current_if, inside_interface, segPc>>

\* Lines 79-84.
SegClose ==
    /\ segPc = "loop" /\ UNCHANGED notSeg /\ segI <= Len(port_lines)
    /\ ~IsInterfaceComment(SegStripped)
    /\ inside_interface /\ IsTerminator(SegStripped)
    /\ interfaces' = IF current_if # 0 THEN Append(interfaces, current_if) ELSE interfaces
    /\ current_if' = 0
    /\ inside_interface' = FALSE
    /\ segI' = segI + 1
    /\ UNCHANGED <<port_lines, objs, segPc>>

\* Lines 87-92: the parsed pair is appended to the current dictionary, and so
\* to every list entry that refers to it.
SegSignal ==
    /\ segPc = "loop" /\ UNCHANGED notSeg /\ segI <= Len(port_lines)
    /\ ~IsInterfaceComment(SegStripped)
    /\ ~(inside_interface /\ IsTerminator(SegStripped))
    /\ inside_interface /\ StartsWith(SegStripped, s_input)
    /\ current_if # 0
    /\ objs' = [objs EXCEPT ![current_if].content =
                    Append(@, parse_sv_signal_info(SegLine))]
    /\ segI' = segI + 1
    /\ UNCHANGED <<port_lines, interfaces, current_if, inside_interface, segPc>>

\* A line none of the three tests accepts.
SegSkip ==
    /\ segPc = "loop" /\ UNCHANGED notSeg /\ segI <= Len(port_lines)
    /\ ~IsInterfaceComment(SegStripped)
    /\ ~(inside_interface /\ IsTerminator(SegStripped))
    /\ ~(inside_interface /\ StartsWith(SegStripped, s_input))
    /\ segI' = segI + 1
    /\ UNCHANGED <<port_lines, objs, interfaces, current_if, inside_interface, segPc>>

\* Lines 95-98: the flush after the loop, and the return.
SegReturn ==
    /\ segPc = "loop" /\ UNCHANGED notSeg /\ segI > Len(port_lines)
    /\ interfaces' = IF current_if # 0 THEN Append(interfaces, current_if) ELSE interfaces
    /\ segPc' = "done"
    /\ UNCHANGED <<port_lines, segI, objs, current_if, inside_interface>>

\* The returned list, each reference replaced by the dictionary it refers to.
SegResult == [k \in 1..Len(interfaces) |-> objs[interfaces[k]]]

SegLines ==
    {s_a_INTERFACE, s_bc_interface, s_b_INTERFACE, s_note, <<>>, <<" ", " ">> \o s_close,
     s_in_x, s_in_y, s_out_z, s_input \o <<",">>}

RECURSIVE SeqsUpTo(_, _)
SeqsUpTo(S, n) ==
    IF n = 0 THEN {<<>>}
    ELSE LET R == SeqsUpTo(S, n - 1)
         IN  R \cup {Append(r, x) : r \in {q \in R : Len(q) = n - 1}, x \in S}

InitSeg ==
    /\ port_lines \in SeqsUpTo(SegLines, MaxSegLines)
    /\ segI = 1
    /\ objs = <<>>
    /\ interfaces = <<>>
    /\ current_if = 0
    /\ inside_interface = FALSE
    /\ segPc = "loop"
    /\ IdleSig
    /\ IdleVhdl
    /\ IdleEnv
    /\ IdlePar
    /\ IdlePb

NextSeg ==
    \/ SegOpen
    \/ SegOpenNoMatch
    \/ SegClose
    \/ SegSignal
    \/ SegSkip
    \/ SegReturn

SpecSeg == InitSeg /\ [][NextSeg]_vars

s_pl_w == <<" "," ","p","a","r","a","m","e","t","e","r"," ","W"," ","="," ","8",",">>
s_pl_d == <<"p","a","r","a","m","e","t","e","r"," ","D","=","2"," ","/","/"," ","d"," ","="," ","d","e","p","t","h">>
s_pl_p == <<"p","a","r","a","m","e","t","e","r"," "," ","P"," "," ","="," "," ","A"," ","=","="," ","B"," ",",">>
s_A_EQEQ_B == <<"A"," ","=","="," ","B">>
s_pl_n == <<"p","a","r","a","m","e","t","e","r"," ","N"," ","="," ","W","-","1">>
s_WDS1 == <<"W","-","1">>
s_pl_k == <<"K"," ",":"," ","i","n","t","e","g","e","r"," ",":","="," ","4",";">>
s_pl_t == <<"p","a","r","a","m","e","t","e","r"," ","t","y","p","e"," ","T",",">>
s_pl_c == <<"/","/"," ","W"," ","="," ","1">>

(***************************************************************************)
(* parse_sv.py: parse_sv_parameters_info                                   *)
(***************************************************************************)
\* The variant that leaves the `parameter` keyword in the name.
parse_sv_parameter_line_keeps_keyword(ln) ==
    IF Contains(RStripSet(Strip(SplitOn(ln, s_cmt)[1]), {","}), <<"=">>)
    THEN << <<Strip(SplitOnce(RStripSet(Strip(SplitOn(ln, s_cmt)[1]), {","}), <<"=">>)[1]),
              Strip(SplitOnce(RStripSet(Strip(SplitOn(ln, s_cmt)[1]), {","}), <<"=">>)[2])>> >>
    ELSE <<>>

\* Lines 36-46 for one line of the block: the pairs it adds to param_list
parse_sv_parameter_line(ln) ==
    LET line0 == RStripSet(Strip(SplitOn(ln, s_cmt)[1]), {","})
        line1 == IF StartsWith(line0, s_parameter)
                 THEN Strip(SubSeq(line0, Len(s_parameter) + 1, Len(line0)))
                 ELSE line0
    IN  IF Contains(line1, <<"=">>)
        THEN << <<Strip(SplitOnce(line1, <<"=">>)[1]), Strip(SplitOnce(line1, <<"=">>)[2])>> >>
        ELSE <<>>

\* Lines 33-48: the pairs of the lines of the block, in the order of the lines
RECURSIVE parse_sv_parameters_info(_)
parse_sv_parameters_info(block) ==
    IF block = <<>> THEN <<>>
    ELSE parse_sv_parameter_line(Head(block)) \o parse_sv_parameters_info(Tail(block))

\* Lines of a parameter block: `parameter K = V,` in several spellings, the
\* VHDL form `K : Ty := V;`, and lines without `=`.
ParLines ==
    {[text |-> s_pl_w, kind |-> "primary", name |-> <<"W">>, value |-> <<"8">>],
     [text |-> s_pl_d, kind |-> "primary", name |-> <<"D">>, value |-> <<"2">>],
     [text |-> s_pl_p, kind |-> "primary", name |-> <<"P">>, value |-> s_A_EQEQ_B],
     [text |-> s_pl_n, kind |-> "primary", name |-> <<"N">>, value |-> s_WDS1],
     [text |-> s_pl_k, kind |-> "secondary", name |-> <<"K">>, value |-> <<"4">>],
     [text |-> s_pl_t, kind |-> "other", name |-> <<>>, value |-> <<>>],
     [text |-> s_pl_c, kind |-> "other", name |-> <<>>, value |-> <<>>],
     [text |-> <<>>, kind |-> "other", name |-> <<>>, value |-> <<>>]}

ParTexts(block) == [i \in 1..Len(block) |-> block[i].text]

InitPar ==
    /\ par_block \in SeqsUpTo(ParLines, MaxParLines)
    /\ param_list = <<>>
    /\ parPc = "ready"
    /\ IdleSig
    /\ IdleSeg
    /\ IdleVhdl
    /\ IdleEnv
    /\ IdlePb

CallParseParameters ==
    /\ parPc = "ready" /\ UNCHANGED notPar
    /\ param_list' = parse_sv_parameters_info(ParTexts(par_block))
    /\ parPc' = "done"
    /\ UNCHANGED par_block

NextPar == CallParseParameters

SpecPar == InitPar /\ [][NextPar]_vars

(***************************************************************************)
(* vhdl_to_sv.py                                                           *)
(***************************************************************************)
\* s.splitlines()
RECURSIVE SplitLines(_)
SplitLines(s) ==
    LET i == Find(s, <<"\n">>, 1)
    IN  IF s = <<>> THEN <<>>
        ELSE IF i = 0 THEN <<s>>
        ELSE <<SubSeq(s, 1, i - 1)>> \o SplitLines(SubSeq(s, i + 1, Len(s)))

\* The first index at or after i that holds no whitespace, Len(s) + 1 if none.
SkipWs(s, i) ==
    LET I == {j \in i..Len(s) : s[j] \notin WS}
    IN  IF I = {} THEN Len(s) + 1 ELSE MinOf(I)

\* re.match(r"generic\s*\(", stripped, re.IGNORECASE), and the same for port
MatchesOpener(stripped, word) ==
    /\ StartsWith(Lower(stripped), word)
    /\ StartsWith(LStrip(SubSeq(stripped, Len(word) + 1, Len(stripped))), <<"(">>)

\* re.match(r"\)\s*;", stripped)
MatchesBlockEnd(stripped) ==
    /\ StartsWith(stripped, <<")">>)
    /\ StartsWith(LStrip(SubSeq(stripped, 2, Len(stripped))), <<";">>)

\* The loop of read_vhdl_generics and read_vhdl_port over the remaining lines.
RECURSIVE ReadBlock(_, _, _, _)
ReadBlock(lines, word, inside, acc) ==
    IF lines = <<>> THEN acc
    ELSE LET stripped == Strip(Head(lines))
         IN  IF MatchesOpener(stripped, word)
                 THEN ReadBlock(Tail(lines), word, TRUE, acc)
             ELSE IF inside /\ MatchesBlockEnd(stripped) THEN acc
             ELSE IF inside
                 THEN ReadBlock(Tail(lines), word, TRUE, Append(acc, stripped))
             ELSE ReadBlock(Tail(lines), word, FALSE, acc)

read_vhdl_generics(content) == ReadBlock(SplitLines(content), s_generic, FALSE, <<>>)
read_vhdl_port(content) == ReadBlock(SplitLines(content), s_port, FALSE, <<>>)

extract_param_name(ln) ==
    IF ln = <<>> \/ StartsWith(Strip(ln), s_dashdash) THEN <<>>
    ELSE LET l == RStripSet(Strip(ln), {";"})
         IN  IF Contains(l, <<":">>) THEN Strip(SplitOn(l, <<":">>)[1]) ELSE <<>>

\* re.search(r":=\s*(.*?);?$", line): the lazy group runs to the end of the
\* line, less one closing `;`.
extract_param_default_value(ln) ==
    IF ln = <<>> \/ StartsWith(Strip(ln), s_dashdash) THEN <<>>
    ELSE LET i == Find(ln, s_assign, 1)
             rest == LStrip(SubSeq(ln, i + 2, Len(ln)))
             group == IF rest # <<>> /\ rest[Len(rest)] = ";"
                      THEN SubSeq(rest, 1, Len(rest) - 1) ELSE rest
         IN  IF i = 0 THEN <<>> ELSE Strip(group)

extract_signal_name(vhdl_port_line) ==
    IF vhdl_port_line = <<>> \/ StartsWith(Strip(vhdl_port_line), s_dashdash) THEN <<>>
    ELSE LET l == RStripSet(Strip(vhdl_port_line), {";"})
         IN  IF Contains(l, <<":">>) THEN Strip(SplitOn(l, <<":">>)[1]) ELSE <<>>

\* re.search(r"\((.*?)\)", line), then the split on "downto" (the unpacking
\* of line 159 raises for a second "downto"; no input here holds one).
extract_range(ln) ==
    LET open == Find(ln, <<"(">>, 1)
        close == IF open = 0 THEN 0 ELSE Find(ln, <<")">>, open + 1)
        inside == SubSeq(ln, open + 1, close - 1)
        parts == SplitOn(inside, s_downto)
    IN  IF StartsWith(Strip(ln), s_dashdash) THEN <<>>
        ELSE IF open = 0 \/ close = 0 THEN <<>>
        ELSE IF Contains(inside, s_downto)
             THEN <<"[">> \o Strip(parts[1]) \o <<":">> \o Strip(parts[2]) \o <<"]">>
        ELSE <<>>

classify_vhdl_generic_lines(lines) ==
    [i \in 1..Len(lines) |->
        LET stripped == Strip(lines[i])
            param_name == extract_param_name(lines[i])
            default_value == extract_param_default_value(lines[i])
        IN  IF stripped = <<>>
                THEN [type |-> "empty", name |-> <<>>, default |-> <<>>, value |-> <<>>]
            ELSE IF StartsWith(stripped, s_dashdash)
                THEN [type |-> "comment", name |-> <<>>, default |-> <<>>,
                      value |-> stripped]
            ELSE IF Contains(stripped, <<";">>) /\ i < Len(lines)
                THEN [type |-> "parameter", name |-> param_name,
                      default |-> default_value, value |-> stripped]
            ELSE [type |-> "last_parameter", name |-> param_name,
                  default |-> default_value, value |-> stripped]]

format_sv_parameters(classified_params) ==
    Join([i \in 1..Len(classified_params) |->
            LET entry == classified_params[i]
            IN  CASE entry.type = "parameter" ->
                       s_pfx_param \o entry.name \o s_eq \o entry.default \o <<",">>
                  [] entry.type = "last_parameter" ->
                       s_pfx_param \o entry.name \o s_eq \o entry.default
                  [] entry.type = "comment" ->
                       s_pfx_cmt \o Strip(LStripSet(entry.value, {"-"}))
                  [] OTHER -> <<>>],
         <<"\n">>)

classify_vhdl_port_lines(lines) ==
    [i \in 1..Len(lines) |->
        LET stripped == Strip(lines[i])
            signal_name == extract_signal_name(lines[i])
            signal_range == extract_range(lines[i])
        IN  IF stripped = <<>>
                THEN [type |-> "empty", name |-> <<>>, range |-> <<>>, value |-> <<>>]
            ELSE IF StartsWith(stripped, s_dashdash)
                THEN [type |-> "comment", name |-> <<>>, range |-> <<>>,
                      value |-> stripped]
            ELSE IF Contains(stripped, <<";">>)
                THEN [type |-> "line", name |-> signal_name, range |-> signal_range,
                      value |-> stripped]
            ELSE [type |-> "last_line", name |-> signal_name, range |-> signal_range,
                  value |-> stripped]]

\* The variant that keeps the direction of an `out` port.
format_sv_ports_keeps_direction(classified_ports) ==
    [i \in 1..Len(classified_ports) |->
        LET entry == classified_ports[i]
            dir == IF Contains(entry.value, s_colon_out) THEN s_pfx_output
                   ELSE s_pfx_input
        IN  CASE entry.type = "line" ->
                   dir \o entry.range \o <<" ">> \o entry.name \o <<",">>
              [] entry.type = "last_line" ->
                   dir \o entry.range \o <<" ">> \o entry.name
              [] entry.type = "comment" -> s_pfx_cmt2 \o LStripSet(entry.value, {"-"})
              [] OTHER -> <<>>]

format_sv_ports(classified_ports) ==
    [i \in 1..Len(classified_ports) |->
        LET entry == classified_ports[i]
        IN  CASE entry.type = "line" ->
                   s_pfx_input \o entry.range \o <<" ">> \o entry.name \o <<",">>
              [] entry.type = "last_line" ->
                   s_pfx_input \o entry.range \o <<" ">> \o entry.name
              [] entry.type = "comment" -> s_pfx_cmt2 \o LStripSet(entry.value, {"-"})
              [] OTHER -> <<>>]

generate_sv_module(content, top_name) ==
    LET classified_ports == classify_vhdl_port_lines(read_vhdl_port(content))
        classified_params == classify_vhdl_generic_lines(read_vhdl_generics(content))
    IN  Join(<<s_module \o <<" ">> \o top_name, s_ind_hash,
               format_sv_parameters(classified_params), s_ind_close, s_ind_open>>
             \o format_sv_ports(classified_ports)
             \o <<s_block_close, s_endmodule>>,
             <<"\n">>)

(***************************************************************************)
(* fv_env_build.py: extract_module_blocks                                  *)
(***************************************************************************)
\* `module\s+<top_name>` matched at index i: the index after the name, else 0.
HeadEnd(content, top_name, i) ==
    LET j == SkipWs(content, i + Len(s_module))
    IN  IF /\ MatchAt(content, s_module, i)
           /\ j > i + Len(s_module)
           /\ MatchAt(content, top_name, j)
        THEN j + Len(top_name) ELSE 0

HeadEnds(content, top_name) ==
    {HeadEnd(content, top_name, i) : i \in 1..Len(content)} \ {0}

\* `\s*#\((.*?)\)\s*\(` from index e: the lazy group ends at the first `)`
\* that whitespace and `(` follow.  The group, or None.
ParamGroupFrom(content, e) ==
    LET p1 == SkipWs(content, e)
        C == {c \in (p1 + 2)..Len(content) :
                /\ content[c] = ")"
                /\ SkipWs(content, c + 1) <= Len(content)
                /\ content[SkipWs(content, c + 1)] = "("}
    IN  IF MatchAt(content, s_hash_open, p1) /\ C # {}
        THEN SubSeq(content, p1 + 2, MinOf(C) - 1)
        ELSE None

\* `(?:\s*#\(.*?\))?\s*\((.*?)\);` from index e: first with the optional
\* group, then without it.  The group of the port list, or None.
PortGroupFrom(content, e) ==
    LET p1 == SkipWs(content, e)
        C == {c \in (p1 + 2)..Len(content) :
                /\ content[c] = ")"
                /\ SkipWs(content, c + 1) <= Len(content)
                /\ content[SkipWs(content, c + 1)] = "("
                /\ Find(content, s_close, SkipWs(content, c + 1) + 1) # 0}
        open == SkipWs(content, MinOf(C) + 1)
    IN  IF MatchAt(content, s_hash_open, p1) /\ C # {}
            THEN SubSeq(content, open + 1, Find(content, s_close, open + 1) - 1)
        ELSE IF /\ p1 <= Len(content)
                /\ content[p1] = "("
                /\ Find(content, s_close, p1 + 1) # 0
            THEN SubSeq(content, p1 + 1, Find(content, s_close, p1 + 1) - 1)
        ELSE None

\* re.search: the leftmost start at which the pattern matches.
extract_module_blocks(content, top_name) ==
    LET E == HeadEnds(content, top_name)
        PE == {e \in E : ParamGroupFrom(content, e) # None}
        QE == {e \in E : PortGroupFrom(content, e) # None}
    IN  <<IF PE = {} THEN <<>> ELSE Strip(ParamGroupFrom(content, MinOf(PE))),
          IF QE = {} THEN <<>> ELSE Strip(PortGroupFrom(content, MinOf(QE)))>>

(***************************************************************************)
(* The translator followed by the extractor and the Signal Parser          *)
(***************************************************************************)
\* A line of a VHDL port block: its text, whether it declares ports, and the
\* name or names it declares.
VhdlPortLines ==
    {[text |-> s_vp_clk, decl |-> TRUE, name |-> s_clk],
     [text |-> s_vp_d, decl |-> TRUE, name |-> <<"d">>],
     [text |-> s_vp_q, decl |-> TRUE, name |-> <<"q">>],
     [text |-> s_vp_dsp, decl |-> TRUE, name |-> <<"e">>],
     [text |-> s_vp_ab, decl |-> TRUE, name |-> s_a_b],
     [text |-> s_vp_note, decl |-> FALSE, name |-> <<>>],
     [text |-> <<>>, decl |-> FALSE, name |-> <<>>]}

\* A line of a VHDL generic block.
VhdlGenericLines ==
    {[text |-> s_vg_w, decl |-> TRUE],
     [text |-> s_vg_d, decl |-> TRUE],
     [text |-> s_vg_n, decl |-> TRUE],
     [text |-> s_vp_note, decl |-> FALSE],
     [text |-> <<>>, decl |-> FALSE]}

Indented(lines) == [i \in 1..Len(lines) |-> Spaces(4) \o lines[i].text]

VhdlText(generics, portlines) ==
    Join(<<s_entity_top>>
         \o (IF generics = <<>> THEN <<>>
             ELSE <<s_generic_open>> \o Indented(generics) \o <<s_block_close>>)
         \o <<s_port_open>> \o Indented(portlines) \o <<s_block_close, s_end_entity>>,
         <<"\n">>) \o <<"\n">>

InitVhdl ==
    /\ \/ /\ vhdl_generics \in SeqsUpTo(VhdlGenericLines, MaxGenerics)
          /\ vhdl_ports = <<[text |-> s_vp_clk, decl |-> TRUE, name |-> s_clk],
                            [text |-> s_vp_q, decl |-> TRUE, name |-> <<"q">>]>>
       \/ /\ vhdl_generics \in {<<>>, <<[text |-> s_vg_w, decl |-> TRUE],
                                        [text |-> s_vg_d, decl |-> TRUE]>>}
          /\ vhdl_ports \in SeqsUpTo(VhdlPortLines, MaxPorts)
    /\ vhdl_content = VhdlText(vhdl_generics, vhdl_ports)
    /\ sv_module = None
    /\ parameters = None
    /\ ports = None
    /\ round_names = None
    /\ vhdlPc = "translate"
    /\ IdleSig
    /\ IdleSeg
    /\ IdleEnv
    /\ IdlePar
    /\ IdlePb

Translate ==
    /\ vhdlPc = "translate" /\ UNCHANGED notVhdl
    /\ sv_module' = generate_sv_module(vhdl_content, s_top)
    /\ vhdlPc' = "extract"
    /\ UNCHANGED <<vhdl_generics, vhdl_ports, vhdl_content, parameters, ports, round_names>>

ExtractBlocks ==
    /\ vhdlPc = "extract" /\ UNCHANGED notVhdl
    /\ parameters' = extract_module_blocks(sv_module, s_top)[1]
    /\ ports' = extract_module_blocks(sv_module, s_top)[2]
    /\ vhdlPc' = "parse"
    /\ UNCHANGED <<vhdl_generics, vhdl_ports, vhdl_content, sv_module, round_names>>

ParsePortLines ==
    /\ vhdlPc = "parse" /\ UNCHANGED notVhdl
    /\ round_names' = [i \in 1..Len(SplitLines(ports)) |->
                          parse_sv_signal_info(SplitLines(ports)[i])[1]]
    /\ vhdlPc' = "done"
    /\ UNCHANGED <<vhdl_generics, vhdl_ports, vhdl_content, sv_module, parameters, ports>>

NextVhdl ==
    \/ Translate
    \/ ExtractBlocks
    \/ ParsePortLines

SpecVhdl == InitVhdl /\ [][NextVhdl]_vars

(***************************************************************************)
(* fv_env_build.py: string literals                                        *)
(***************************************************************************)
s_Ascii == <<" ","!","\"","#","$","%","&","'","(",")","*","+",",","-",".","/","0","1","2","3","4","5","6","7","8","9",":",";","<","=",">","?","@","A","B","C","D","E","F","G","H","I","J","K","L","M","N","O","P","Q","R","S","T","U","V","W","X","Y","Z","[","\\","]","^","_","BQ","a","b","c","d","e","f","g","h","i","j","k","l","m","n","o","p","q","r","s","t","u","v","w","x","y","z","{","|","}","~">>
s_DOTsv == <<".","s","v">>
s_DOTv == <<".","v">>
s_DOTvhd == <<".","v","h","d">>
s_p_interfaces == <<"v","e","r","i","f","/","i","n","t","e","r","f","a","c","e","s">>
s__port_intfDOTsv == <<"_","p","o","r","t","_","i","n","t","f",".","s","v">>
s_verifSL == <<"v","e","r","i","f","/">>
s_CM_ == <<","," ">>
s__port_intf_fields == <<"_","p","o","r","t","_","i","n","t","f","_","f","i","e","l","d","s">>
s_interface_ == <<"i","n","t","e","r","f","a","c","e"," ">>
s__port_intfSCNL == <<"_","p","o","r","t","_","i","n","t","f",";","\n">>
s_____ == <<" "," "," "," ">>
s_SCNL == <<";","\n">>
s_____BQdefine_ == <<" "," "," "," ","BQ","d","e","f","i","n","e"," ">>
s__BSNL________ == <<" ","\\","\n"," "," "," "," "," "," "," "," ">>
s_____modport_driver__LPoutput_BQ == <<" "," "," "," ","m","o","d","p","o","r","t"," ","d","r","i","v","e","r"," "," ","(","o","u","t","p","u","t"," ","BQ">>
s_RPSCNL == <<")",";","\n">>
s_____modport_monitor_LPinput_BQ == <<" "," "," "," ","m","o","d","p","o","r","t"," ","m","o","n","i","t","o","r"," ","(","i","n","p","u","t"," ","BQ">>
s_endinterfaceNL == <<"e","n","d","i","n","t","e","r","f","a","c","e","\n">>
s_input_ == <<"i","n","p","u","t"," ">>
s___ == <<" "," ">>
s_module_fv_envNL == <<"m","o","d","u","l","e"," ","f","v","_","e","n","v","\n">>
s___HSLPNL == <<" "," ","#","(","\n">>
s___RPNL == <<" "," ",")","\n">>
s___LPNL == <<" "," ","(","\n">>
s___RPSCNLNL == <<" "," ",")",";","\n","\n">>
s___defaultNL____clocking_ATLPposedge_ == <<" "," ","d","e","f","a","u","l","t","\n"," "," "," "," ","c","l","o","c","k","i","n","g"," ","@","(","p","o","s","e","d","g","e"," ">>
s_RPSCNL__endclockingNLNL == <<")",";","\n"," "," ","e","n","d","c","l","o","c","k","i","n","g","\n","\n">>
s___default_disable_iff_LP == <<" "," ","d","e","f","a","u","l","t"," ","d","i","s","a","b","l","e"," ","i","f","f"," ","(">>
s_RPSCNLNL == <<")",";","\n","\n">>
s__intf == <<"_","i","n","t","f">>
s_LPRPSCNL == <<"(",")",";","\n">>
s___fv_adapter_fv_adapterLPDOTSTRPSCNL == <<" "," ","f","v","_","a","d","a","p","t","e","r"," ","f","v","_","a","d","a","p","t","e","r","(",".","*",")",";","\n">>
s_endmoduleNL == <<"e","n","d","m","o","d","u","l","e","\n">>
s_bind_ == <<"b","i","n","d"," ">>
s__fv_env_fv_envLPDOTSTRPSCNL == <<" ","f","v","_","e","n","v"," ","f","v","_","e","n","v","(",".","*",")",";","\n">>
s_p_rtl == <<"r","t","l">>
s_p_rtl_f == <<"r","t","l","/","r","t","l",".","f">>
s_rtlSL == <<"r","t","l","/">>
s_makefile == <<"m","a","i","n",":","\n","\t","j","g"," ",".","/","s","c","r","i","p","t","s","/","f","v","_","r","u","n",".","t","c","l"," ","&","\n",".","P","H","O","N","Y",":"," ","c","l","e","a","n","\n","c","l","e","a","n",":","\n","\t","r","m"," ","-","r","f"," ","j","g","p","r","o","j","e","c","t","\n">>
s_clear_DSallNL == <<"c","l","e","a","r"," ","-","a","l","l","\n">>
s_HS_analyze_rtlNL == <<"#"," ","a","n","a","l","y","z","e"," ","r","t","l","\n">>
s_analyze_DSsv09_DSf_rtlSLrtlDOTfNL == <<"a","n","a","l","y","z","e"," ","-","s","v","0","9"," ","-","f"," ","r","t","l","/","r","t","l",".","f","\n">>
s_HS_srcNLNL == <<"#"," ","s","r","c","\n","\n">>
s_HS_analyze_verifNL == <<"#"," ","a","n","a","l","y","z","e"," ","v","e","r","i","f","\n">>
s_analyze_DSsv09_DSf_verifSLverifDOTfNLNL == <<"a","n","a","l","y","z","e"," ","-","s","v","0","9"," ","-","f"," ","v","e","r","i","f","/","v","e","r","i","f",".","f","\n","\n">>
s_elaborate_DStop_ == <<"e","l","a","b","o","r","a","t","e"," ","-","t","o","p"," ">>
s_NLNL == <<"\n","\n">>
s_clock_ == <<"c","l","o","c","k"," ">>
s_reset_ == <<"r","e","s","e","t"," ">>
s_BQdefine_ == <<"BQ","d","e","f","i","n","e"," ">>
s__fields == <<"_","f","i","e","l","d","s">>
s_DOTdriver_ == <<".","d","r","i","v","e","r"," ">>
s___assign_ == <<" "," ","a","s","s","i","g","n"," ">>
s__SLSL == <<" ","/","/">>
s___RPSCNL == <<" "," ",")",";","\n">>
s_p_fv_env == <<"v","e","r","i","f","/","f","v","_","e","n","v",".","s","v">>
s_module_fv_adapterNL == <<"m","o","d","u","l","e"," ","f","v","_","a","d","a","p","t","e","r","\n">>
s_p_fv_adapter == <<"v","e","r","i","f","/","f","v","_","a","d","a","p","t","e","r",".","s","v">>
s_p_scripts == <<"s","c","r","i","p","t","s">>
s_p_fv_run == <<"s","c","r","i","p","t","s","/","f","v","_","r","u","n",".","t","c","l">>
s_p_verif_f == <<"v","e","r","i","f","/","v","e","r","i","f",".","f">>
s_p_checker == <<"v","e","r","i","f","/","c","h","e","c","k","e","r","s","/","c","h","e","c","k","e","r",".","s","v">>
s_p_interface_sv == <<"v","e","r","i","f","/","i","n","t","e","r","f","a","c","e","s","/","i","n","t","e","r","f","a","c","e",".","s","v">>
s_p_fv_bind == <<"v","e","r","i","f","/","f","v","_","b","i","n","d",".","s","v">>
s_p_fv_pkg == <<"v","e","r","i","f","/","f","v","_","p","k","g",".","s","v">>
s_p_makefile == <<"M","a","k","e","f","i","l","e">>
s_p_checkers == <<"v","e","r","i","f","/","c","h","e","c","k","e","r","s">>
s_p_snapshot == <<".","f","o","r","m","a","l","_","e","n","v","_","s","n","a","p","s","h","o","t",".","j","s","o","n">>
s_p_verif == <<"v","e","r","i","f">>
s_p_jgproject == <<"j","g","p","r","o","j","e","c","t">>
s_decl_plain == <<"m","o","d","u","l","e"," ","t","o","p"," ","#","(","\n"," "," ","p","a","r","a","m","e","t","e","r"," ","W"," ","="," ","8","\n",")"," ","(","\n"," "," ","i","n","p","u","t"," ","c","l","k",",","\n"," "," ","o","u","t","p","u","t"," ","[","W","-","1",":","0","]"," ","q","\n",")",";","\n","e","n","d","m","o","d","u","l","e","\n">>
s_decl_grp == <<"m","o","d","u","l","e"," ","t","o","p"," ","(","\n"," "," ","i","n","p","u","t"," ","c","l","k",",","\n"," "," ","/","/"," ","a"," ","I","N","T","E","R","F","A","C","E","\n"," "," ","i","n","p","u","t"," ","[","3",":","0","]"," ","x",",","\n"," "," ","o","u","t","p","u","t"," ","y","\n",")",";","\n","e","n","d","m","o","d","u","l","e","\n">>
s_decl_two == <<"m","o","d","u","l","e"," ","t","o","p"," ","(","\n"," "," ","/","/"," ","a","x","i","_","i","n","t","f"," ","I","N","T","E","R","F","A","C","E","\n"," "," ","i","n","p","u","t"," ","x",",","\n","\n"," "," ","/","/"," ","b"," ","I","N","T","E","R","F","A","C","E","\n"," "," ","i","n","p","u","t"," ","z"," ","/","/"," ","d","a","t","a","\n",")",";","\n","e","n","d","m","o","d","u","l","e","\n">>
s_decl_other == <<"m","o","d","u","l","e"," ","c","o","r","e"," ","(","\n"," "," ","i","n","p","u","t"," ","a","\n",")",";","\n","e","n","d","m","o","d","u","l","e","\n">>
s_ck == <<"c","k">>
s_p_rtl_top == <<"r","t","l","/","t","o","p",".","s","v">>
s_p_top == <<"t","o","p",".","s","v">>
s_rst == <<"r","s","t">>
s_fv_adapter_fv_adapterLPDOTSTRPSC == <<"f","v","_","a","d","a","p","t","e","r"," ","f","v","_","a","d","a","p","t","e","r","(",".","*",")",";">>
s__portDOT == <<"_","p","o","r","t",".">>
s__port_intfDOTdriver_ == <<"_","p","o","r","t","_","i","n","t","f",".","d","r","i","v","e","r"," ">>
s__port == <<"_","p","o","r","t">>
s_BQdefine_param_fields == <<"BQ","d","e","f","i","n","e"," ","p","a","r","a","m","_","f","i","e","l","d","s">>

(***************************************************************************)
(* fv_env_build.py: the project directory                                  *)
(***************************************************************************)
\* A path is the string of its parts joined by "/", relative to prd_path.
\* Path.name and Path.parent
LastSlash(p) ==
    LET D == {i \in 1..Len(p) : p[i] = "/"}
    IN  IF D = {} THEN 0 ELSE MaxOf(D)
PathName(p) == SubSeq(p, LastSlash(p) + 1, Len(p))
PathParent(p) == SubSeq(p, 1, LastSlash(p) - 1)

\* Path.suffix: from the last dot of the name, unless the name starts or ends
\* with it
PathSuffix(p) ==
    LET name == PathName(p)
        D == {i \in 1..Len(name) : name[i] = "."}
    IN  IF D # {} /\ MaxOf(D) > 1 /\ MaxOf(D) < Len(name)
        THEN SubSeq(name, MaxOf(D), Len(name)) ELSE <<>>

\* Path.stem: the name without its suffix
PathStem(p) == SubSeq(PathName(p), 1, Len(PathName(p)) - Len(PathSuffix(p)))

\* ord(c) for the printable characters
Ord(c) ==
    IF \E i \in 1..Len(s_Ascii) : s_Ascii[i] = c
    THEN 31 + (CHOOSE i \in 1..Len(s_Ascii) : s_Ascii[i] = c)
    ELSE 0

\* p < q for two paths: pathlib compares the lists of parts, so that at the
\* first difference a path whose part ends there comes first
PathOrd(p, i) == IF i > Len(p) THEN 0 - 1 ELSE IF p[i] = "/" THEN 0 ELSE Ord(p[i])
PathLess(p, q) ==
    LET D == {i \in 1..(Len(p) + 1) : i > Len(q) \/ PathOrd(p, i) # PathOrd(q, i)}
    IN  p # q /\ PathOrd(p, MinOf(D)) < PathOrd(q, MinOf(D))

\* sorted(paths)
RECURSIVE SortedPaths(_)
SortedPaths(P) ==
    IF P = {} THEN <<>>
    ELSE LET m == CHOOSE p \in P : \A q \in P \ {p} : PathLess(p, q)
         IN  <<m>> \o SortedPaths(P \ {m})

\* open(p, "w") followed by the writes, Path.touch(), the removal of a file
\* and of a directory tree
WriteFile(f, p, text) == (p :> text) @@ f
TouchFile(f, p) == IF p \in DOMAIN f THEN f ELSE WriteFile(f, p, <<>>)
RemoveFile(f, p) == [q \in DOMAIN f \ {p} |-> f[q]]
RemoveTree(f, d) == [q \in {r \in DOMAIN f : ~StartsWith(r, d \o <<"/">>)} |-> f[q]]

\* shutil.move(src, dst) of a file: dst is replaced when it exists
MoveFile(f, src, dst) ==
    [q \in (DOMAIN f \ {src}) \cup {dst} |-> IF q = dst THEN f[src] ELSE f[q]]

\* os.makedirs(d, exist_ok=True): d and its parents
RECURSIVE MakeDirs(_, _)
MakeDirs(ds, d) ==
    IF d = <<>> THEN ds ELSE MakeDirs(ds \cup {d}, PathParent(d))

\* d.glob("*.*"): the entries of directory d whose name holds a dot
GlobDotted(f, d) ==
    {p \in DOMAIN f : PathParent(p) = d /\ Contains(PathName(p), <<".">>)}

\* the RTL files of directory d: suffix in [".sv", ".v", ".vhd"]
RtlSuffixes == {s_DOTsv, s_DOTv, s_DOTvhd}
RtlFiles(f, d) == {p \in GlobDotted(f, d) : PathSuffix(p) \in RtlSuffixes}

\* interfaces_path.glob("*_port_intf.sv"), sorted
WrapperFiles(f) ==
    SortedPaths({p \in DOMAIN f :
                    /\ PathParent(p) = s_p_interfaces
                    /\ EndsWith(PathName(p), s__port_intfDOTsv)})

\* verif_path.rglob("*.sv"), sorted
VerifSvFiles(f) ==
    SortedPaths({p \in DOMAIN f :
                    /\ StartsWith(p, s_verifSL)
                    /\ EndsWith(PathName(p), s_DOTsv)})

\* json.dump of a list of names, and json.load of it
JsonDump(names) ==
    <<"[">> \o Join([i \in 1..Len(names) |-> <<"\"">> \o names[i] \o <<"\"">>],
                    s_CM_)
            \o <<"]">>
JsonLoad(text) ==
    LET inner == SubSeq(text, 2, Len(text) - 1)
        items == SplitOn(inner, s_CM_)
    IN  IF inner = <<>> THEN <<>>
        ELSE [i \in 1..Len(items) |-> SubSeq(items[i], 2, Len(items[i]) - 1)]

\* f.readlines(): the lines with their line ends
RECURSIVE ReadLines(_)
ReadLines(s) ==
    LET i == Find(s, <<"\n">>, 1)
    IN  IF s = <<>> THEN <<>>
        ELSE IF i = 0 THEN <<s>>
        ELSE <<SubSeq(s, 1, i)>> \o ReadLines(SubSeq(s, i + 1, Len(s)))

\* "".join(parts)
RECURSIVE Concat(_)
Concat(parts) == IF parts = <<>> THEN <<>> ELSE Head(parts) \o Concat(Tail(parts))

(***************************************************************************)
(* fv_env_build.py: generate_interfaces_from_top                           *)
(***************************************************************************)
\* re.match(r"^(input|output|inout|logic|wire|reg)", stripped)
StartsWithDeclKeyword(stripped) ==
    \E kw \in {s_input, s_output, s_inout, s_logic, s_wire, s_reg} :
        StartsWith(stripped, kw)

\* re.sub(r"^(input|output|inout)\s+", "", code)
StripDirection(code) ==
    IF \E kw \in {s_input, s_output, s_inout} :
           StartsWith(code, kw) /\ SkipWs(code, Len(kw) + 1) > Len(kw) + 1
    THEN LET kw == CHOOSE k \in {s_input, s_output, s_inout} :
                       StartsWith(code, k) /\ SkipWs(code, Len(k) + 1) > Len(k) + 1
         IN  SubSeq(code, SkipWs(code, Len(kw) + 1), Len(code))
    ELSE code

\* interfaces[interface_name] = current_block: a dictionary keeps the position
\* of a key it already holds
DictSet(dict, key, value) ==
    IF \E i \in 1..Len(dict) : dict[i].name = key
    THEN [i \in 1..Len(dict) |->
             IF dict[i].name = key THEN [name |-> key, signals |-> value] ELSE dict[i]]
    ELSE Append(dict, [name |-> key, signals |-> value])

\* Lines 50-81: the loop over the lines of the top file and the flush at the
\* end of the file.  The dictionary `interfaces`, in insertion order.
RECURSIVE InterfaceBlocks(_, _, _, _, _)
InterfaceBlocks(lines, current_block, interface_name, dict, inside) ==
    LET stripped == Strip(Head(lines))
        stored == IF inside /\ interface_name # <<>> /\ current_block # <<>>
                  THEN DictSet(dict, interface_name, current_block) ELSE dict
        label == InterfaceLabel(stripped)
    IN  IF lines = <<>> THEN stored
        ELSE IF IsInterfaceComment(stripped)
            THEN IF label # None
                 THEN InterfaceBlocks(Tail(lines), <<>>, NormalizeName(label), stored, TRUE)
                 ELSE InterfaceBlocks(Tail(lines), current_block, interface_name, stored,
                                      inside)
        ELSE IF inside /\ IsTerminator(stripped)
            THEN InterfaceBlocks(Tail(lines), <<>>, <<>>, stored, FALSE)
        ELSE IF inside /\ StartsWithDeclKeyword(stripped)
            THEN InterfaceBlocks(Tail(lines), Append(current_block, stripped),
                                 interface_name, dict, TRUE)
        ELSE InterfaceBlocks(Tail(lines), current_block, interface_name, dict, inside)

\* Line 91-92: the declaration of a signal line without comment, separator
\* and direction
SignalCode(s) ==
    StripDirection(RStripSet(Strip(SplitOn(s, s_cmt)[1]), {",", ";"}))

\* Lines 87-100: the last token of every declaration that has one
SignalNames(signals) ==
    LET codes == [i \in 1..Len(signals) |-> SignalCode(signals[i])]
        named == SelectSeq(codes, LAMBDA c : Tokens(c) # <<>>)
    IN  [i \in 1..Len(named) |-> Tokens(named[i])[Len(Tokens(named[i]))]]

\* Lines 103-117: the text of <name>_port_intf.sv
WrapperText(name, signals) ==
    LET macro_name == name \o s__port_intf_fields
    IN  s_interface_ \o name \o s__port_intfSCNL
        \o Concat([i \in 1..Len(signals) |->
                      s_____ \o SignalCode(signals[i]) \o s_SCNL])
        \o s_____BQdefine_ \o macro_name \o s__BSNL________
        \o Join(SignalNames(signals), s_CM_) \o <<"\n">>
        \o s_____modport_driver__LPoutput_BQ \o macro_name \o s_RPSCNL
        \o s_____modport_monitor_LPinput_BQ \o macro_name \o s_RPSCNL
        \o s_endinterfaceNL

WrapperPath(name) == s_p_interfaces \o <<"/">> \o name \o s__port_intfDOTsv

\* The files generate_interfaces_from_top writes for the text of the top
\* file, in the order it writes them.
generate_interfaces_from_top(content) ==
    LET dict == InterfaceBlocks(ReadLines(content), <<>>, <<>>, <<>>, FALSE)
    IN  [i \in 1..Len(dict) |->
            [path |-> WrapperPath(dict[i].name),
             text |-> WrapperText(dict[i].name, dict[i].signals)]]
(***************************************************************************)
(* fv_env_build.py: setup_formal_env, the port list of fv_env              *)
(***************************************************************************)
\* re.match(r"^(input|output|inout)\s*,?\s*//", line) for the keywords kws
IsDirectionComment(ln, kws) ==
    \E kw \in kws :
        /\ StartsWith(ln, kw)
        /\ LET i == SkipWs(ln, Len(kw) + 1)
               j == IF i <= Len(ln) /\ ln[i] = "," THEN SkipWs(ln, i + 1) ELSE i
           IN  MatchAt(ln, s_cmt, j)

\* Lines 313-335 for one stripped, non-empty line of the port block
CleanPortLine(ln) ==
    LET code0 == RStripSet(Strip(SplitOn(ln, s_cmt)[1]), {",", ";"})
        comment == IF Contains(ln, s_cmt)
                   THEN s_cmt \o Strip(SplitOn(ln, s_cmt)[2]) ELSE <<>>
        code == Strip(s_input_ \o StripDirection(code0))
    IN  IF StartsWith(ln, s_cmt) \/ IsDirectionComment(ln, {s_input, s_output, s_inout})
            THEN s___ \o ln \o <<"\n">>
        ELSE IF StartsWith(code, s_cmt) \/ code = <<>>
            THEN RStrip(s___ \o code \o <<" ">> \o comment) \o <<"\n">>
        ELSE RStrip(s___ \o code \o s_CM_ \o comment) \o <<"\n">>

\* Lines 311-335: the first pass over the port block
FirstPass(ports_text) ==
    LET stripped == [i \in 1..Len(SplitLines(ports_text)) |->
                        Strip(SplitLines(ports_text)[i])]
        kept == SelectSeq(stripped, LAMBDA l : l # <<>>)
    IN  [i \in 1..Len(kept) |-> CleanPortLine(kept[i])]

\* Lines 343-349: the index of the last line that declares a signal, 0 for None
LastSignalIdx(clean) ==
    LET I == {i \in 1..Len(clean) :
                 /\ Strip(clean[i]) # <<>>
                 /\ ~StartsWith(Strip(clean[i]), s_cmt)
                 /\ ~IsDirectionComment(Strip(clean[i]), {s_input})}
    IN  IF I = {} THEN 0 ELSE MaxOf(I)

\* Lines 351-380 for line i of the first pass
FormatPortLine(clean, i) ==
    LET original == Strip(clean[i])
        has_comment == Contains(original, s_cmt)
        code0 == IF has_comment
                 THEN RStripSet(RStrip(SplitOnce(original, s_cmt)[1]), {","})
                 ELSE RStripSet(RStrip(original), {","})
        comment == IF has_comment
                   THEN s_cmt \o Strip(SplitOnce(original, s_cmt)[2]) ELSE <<>>
        code == IF i # LastSignalIdx(clean) THEN code0 \o <<",">> ELSE code0
    IN  IF original = <<>> THEN <<"\n">>
        ELSE IF StartsWith(original, s_cmt) \/ IsDirectionComment(original, {s_input})
            THEN s_____ \o original \o <<"\n">>
        ELSE s_____ \o code
             \o (IF comment # <<>> THEN <<" ">> \o comment ELSE <<>>) \o <<"\n">>

\* Lines 311-380: clean_ports
CleanPorts(ports_text) ==
    LET clean == FirstPass(ports_text)
    IN  [i \in 1..Len(clean) |-> FormatPortLine(clean, i)]

\* Lines 305-306 and 385-406: the text of fv_env.sv, for the wrapper files
\* that the interfaces directory holds
FvEnvText(params, ports_text, clocks, reset_name, reset_active_low, wrapper_files) ==
    LET clk_name == IF clocks # <<>> THEN clocks[1] ELSE s_clk
        disable_reset == IF reset_active_low THEN <<"!">> \o reset_name ELSE reset_name
    IN  s_module_fv_envNL \o s___HSLPNL
        \o (IF params # <<>> THEN s_____ \o params \o <<"\n">> ELSE <<>>)
        \o s___RPNL \o s___LPNL
        \o Concat(CleanPorts(ports_text))
        \o s___RPSCNLNL
        \o s___defaultNL____clocking_ATLPposedge_ \o clk_name \o s_RPSCNL__endclockingNLNL
        \o s___default_disable_iff_LP \o disable_reset \o s_RPSCNLNL
        \o Concat([i \in 1..Len(wrapper_files) |->
                      s___ \o PathStem(wrapper_files[i]) \o <<" ">>
                      \o Remove(PathStem(wrapper_files[i]), s__intf) \o s_LPRPSCNL])
        \o <<"\n">>
        \o s___fv_adapter_fv_adapterLPDOTSTRPSCNL
        \o s_endmoduleNL

\* Line 414
FvBindText(top_name) == s_bind_ \o top_name \o s__fv_env_fv_envLPDOTSTRPSCNL

\* Lines 421-423
VerifListText(f) ==
    LET listed == VerifSvFiles(f)
    IN  Concat([i \in 1..Len(listed) |-> listed[i] \o <<"\n">>])

\* Lines 263-267
RtlListText(f) ==
    LET listed == SortedPaths(GlobDotted(f, s_p_rtl) \ {s_p_rtl_f})
    IN  Concat([i \in 1..Len(listed) |-> s_rtlSL \o PathName(listed[i]) \o <<"\n">>])

\* Lines 270-275
MakefileText ==
    s_makefile

\* Lines 428-440
FvRunText(top_name, clocks, reset_name, reset_active_low) ==
    s_clear_DSallNL \o s_HS_analyze_rtlNL \o s_analyze_DSsv09_DSf_rtlSLrtlDOTfNL
    \o s_HS_srcNLNL \o s_HS_analyze_verifNL \o s_analyze_DSsv09_DSf_verifSLverifDOTfNLNL
    \o s_elaborate_DStop_ \o top_name \o s_NLNL
    \o Concat([i \in 1..Len(clocks) |-> s_clock_ \o clocks[i] \o <<"\n">>])
    \o s_reset_ \o (IF reset_active_low THEN <<"~">> ELSE <<>>) \o reset_name \o <<"\n">>

(***************************************************************************)
(* fv_env_build.py: generate_fv_adapter                                    *)
(***************************************************************************)
\* Lines 142-158: the parameter block and the port block of fv_env.sv
RECURSIVE CollectBlocks(_, _, _, _, _)
CollectBlocks(lines, param_block, port_block, inside_params, inside_ports) ==
    LET ln == Head(lines)
        in_params == inside_params \/ Contains(ln, s_hash_open)
        in_ports == inside_ports \/ (Contains(ln, <<"(">>) /\ port_block = <<>>)
    IN  IF lines = <<>> THEN <<param_block, port_block>>
        ELSE IF in_params
            THEN CollectBlocks(Tail(lines), Append(param_block, ln), port_block,
                               ~(Contains(ln, <<")">>) /\ ~EndsWith(Strip(ln), <<",">>)),
                               inside_ports)
        ELSE IF in_ports
            THEN CollectBlocks(Tail(lines), param_block, Append(port_block, ln),
                               FALSE, ~Contains(ln, s_close))
        ELSE CollectBlocks(Tail(lines), param_block, port_block, FALSE, FALSE)

\* re.search(rf"`define {macro}\s+\\\n\s+(.*?)\n", content, re.DOTALL):
\* group(1), or None.  From a start i of "`define <macro>": whitespace, a
\* backslash, a newline, then the greedy \s+ up to the first other
\* character, and the lazy group up to the next newline.
MacroGroupAt(content, macro, i) ==
    LET head == s_BQdefine_ \o macro
        b == SkipWs(content, i + Len(head))
        w == b + 2
        g == SkipWs(content, w)
        NL == {n \in g..Len(content) : content[n] = "\n"}
        Back == {n \in (w + 1)..(g - 1) : content[n] = "\n"}
    IN  IF ~(/\ MatchAt(content, head, i)
             /\ b > i + Len(head)
             /\ MatchAt(content, <<"\\", "\n">>, b)
             /\ g > w)
            THEN None
        ELSE IF NL # {} THEN SubSeq(content, g, MinOf(NL) - 1)
        ELSE IF Back # {} THEN <<>>
        ELSE None

MacroGroup(content, macro) ==
    LET I == {i \in 1..Len(content) : MacroGroupAt(content, macro, i) # None}
    IN  IF I = {} THEN None ELSE MacroGroupAt(content, macro, MinOf(I))

\* Line 181: [s.strip() for s in raw_line.split(",") if s.strip()]
MacroSignals(raw_line) ==
    LET pieces == SplitOn(raw_line, <<",">>)
        stripped == [i \in 1..Len(pieces) |-> Strip(pieces[i])]
    IN  SelectSeq(stripped, LAMBDA s : s # <<>>)

\* Lines 164-189: the wrapper files whose macro is found, each with its
\* instance name and signal names
AdapterInterfaces(f) ==
    LET files == WrapperFiles(f)
        found == SelectSeq(files,
                     LAMBDA p : MacroGroup(f[p], PathStem(p) \o s__fields) # None)
    IN  [i \in 1..Len(found) |->
            [name |-> PathStem(found[i]),
             instance |-> Remove(PathStem(found[i]), s__intf),
             signal_names |->
                 MacroSignals(MacroGroup(f[found[i]], PathStem(found[i]) \o s__fields))]]

\* Line 185
InterfaceDecls(intfs) ==
    [i \in 1..Len(intfs) |-> s_____ \o intfs[i].name \o s_DOTdriver_ \o intfs[i].instance]

\* Line 189
AdapterAssigns(intfs) ==
    Concat([i \in 1..Len(intfs) |->
               Concat([k \in 1..Len(intfs[i].signal_names) |->
                          s___assign_ \o intfs[i].instance \o <<".">>
                          \o intfs[i].signal_names[k] \o s_eq
                          \o intfs[i].signal_names[k] \o s_SCNL])])

\* Lines 194-205: the comma after the last line before `);`
WithSeparator(ln0) ==
    LET ln == RStrip(ln0)
        code == RStrip(SplitOnce(ln, s_cmt)[1])
        comment == Strip(SplitOnce(ln, s_cmt)[2])
    IN  IF Contains(ln, s_cmt)
        THEN (IF EndsWith(code, <<",">>) THEN code ELSE code \o <<",">>)
             \o s__SLSL \o comment \o <<"\n">>
        ELSE (IF EndsWith(ln, <<",">>) THEN ln ELSE ln \o <<",">>) \o <<"\n">>

\* Lines 193-219: the port block of the adapter
AdapterPortBlock(port_block, decls) ==
    LET n == Len(port_block)
        fixed == IF n >= 2
                 THEN [port_block EXCEPT ![n - 1] = WithSeparator(port_block[n - 1])]
                 ELSE port_block
        open == SubSeq(fixed, 1, n - 1)
               \o [i \in 1..Len(decls) |->
                      s___ \o decls[i]
                      \o (IF i < Len(decls) THEN <<",">> ELSE <<>>) \o <<"\n">>]
    IN  IF port_block # <<>> /\ Strip(port_block[n]) = s_close
        THEN [i \in 1..Len(open) |-> s___ \o LStrip(open[i])] \o <<s___RPSCNL>>
        ELSE port_block

\* Lines 132-231: the text of fv_adapter.sv, from fv_env.sv and the wrapper
\* files of the interfaces directory
generate_fv_adapter(f) ==
    LET blocks == CollectBlocks(ReadLines(f[s_p_fv_env]),
                                <<>>, <<>>, FALSE, FALSE)
        intfs == AdapterInterfaces(f)
    IN  s_module_fv_adapterNL
        \o Concat(blocks[1])
        \o Concat(AdapterPortBlock(blocks[2], InterfaceDecls(intfs)))
        \o <<"\n">>
        \o AdapterAssigns(intfs)
        \o s_endmoduleNL
(***************************************************************************)
s_input_clkCM == <<"i","n","p","u","t"," ","c","l","k",",">>
s___output_LBWDS1CL0RB_q == <<" "," ","o","u","t","p","u","t"," ","[","W","-","1",":","0","]"," ","q">>
s_LBWDS1CL0RB_q == <<"[","W","-","1",":","0","]"," ","q">>
s_inout__logic_LB3CL0RB_dCM_SLSL_data == <<"i","n","o","u","t"," "," ","l","o","g","i","c"," ","[","3",":","0","]"," ","d",","," ","/","/"," ","d","a","t","a">>
s_logic_LB3CL0RB_d == <<"l","o","g","i","c"," ","[","3",":","0","]"," ","d">>
s_output_y_CM_SLSL_y == <<"o","u","t","p","u","t"," ","y"," ",","," ","/","/"," ","y">>
s_outputLB3CL0RB_rCM == <<"o","u","t","p","u","t","[","3",":","0","]"," ","r",",">>
s_LB3CL0RB_r == <<"[","3",":","0","]"," ","r">>
s__vCM == <<"_","v",",">>
s_parameter_W_EQ_8 == <<"p","a","r","a","m","e","t","e","r"," ","W"," ","="," ","8">>

(***************************************************************************)
(* fv_env_build.py: the port list of fv_env.sv and of fv_adapter.sv        *)
(***************************************************************************)
\* Lines of a port block: declarations `<dir> <rest>` with and without
\* separator and comment, one with no blank between the direction and the
\* range, a comment line and a blank line.
PortBlockLines ==
    {[text |-> s_input_clkCM, decl |-> TRUE, rest |-> s_clk],
     [text |-> s___output_LBWDS1CL0RB_q, decl |-> TRUE, rest |-> s_LBWDS1CL0RB_q],
     [text |-> s_inout__logic_LB3CL0RB_dCM_SLSL_data, decl |-> TRUE, rest |-> s_logic_LB3CL0RB_d],
     [text |-> s_output_y_CM_SLSL_y, decl |-> TRUE, rest |-> <<"y">>],
     [text |-> s_outputLB3CL0RB_rCM, decl |-> TRUE, rest |-> s_LB3CL0RB_r],
     [text |-> s_a_INTERFACE, decl |-> FALSE, rest |-> <<>>],
     [text |-> <<>>, decl |-> FALSE, rest |-> <<>>]}

\* The port block as extract_module_blocks returns it: the lines, without
\* outer whitespace
PortBlockText(lines) ==
    Strip(Join([i \in 1..Len(lines) |-> lines[i].text], <<"\n">>))

\* The interfaces directory with the wrapper of each group (one member each)
PbWrappers(groups) ==
    [p \in {WrapperPath(groups[i]) : i \in 1..Len(groups)} |->
        LET g == CHOOSE g \in {groups[i] : i \in 1..Len(groups)} : WrapperPath(g) = p
        IN  WrapperText(g, <<s_input_ \o g \o s__vCM>>)]

InitPb ==
    /\ pb_lines \in SeqsUpTo(PortBlockLines, MaxPortLines)
    /\ pb_params \in {<<>>, s_parameter_W_EQ_8}
    /\ pb_groups \in {<<>>, << <<"a">> >>, << <<"a">>, <<"b">> >>}
    /\ pb_env = None
    /\ pb_adapter = None
    /\ pbPc = "env"
    /\ IdleSig
    /\ IdleSeg
    /\ IdleVhdl
    /\ IdleEnv
    /\ IdlePar

\* Lines 305-410: fv_env.sv from the blocks of the top module and the
\* wrapper files
WriteFvEnv ==
    /\ pbPc = "env" /\ UNCHANGED notPb
    /\ pb_env' = FvEnvText(pb_params, PortBlockText(pb_lines), <<>>, s_rst, FALSE,
                           WrapperFiles(PbWrappers(pb_groups)))
    /\ pbPc' = "adapter"
    /\ UNCHANGED <<pb_lines, pb_params, pb_groups, pb_adapter>>

\* Lines 446-450: fv_adapter.sv from fv_env.sv and the wrapper files
WriteFvAdapter ==
    /\ pbPc = "adapter" /\ UNCHANGED notPb
    /\ pb_adapter' = generate_fv_adapter(WriteFile(PbWrappers(pb_groups), s_p_fv_env, pb_env))
    /\ pbPc' = "done"
    /\ UNCHANGED <<pb_lines, pb_params, pb_groups, pb_env>>

NextPb ==
    \/ WriteFvEnv
    \/ WriteFvAdapter

SpecPb == InitPb /\ [][NextPb]_vars

(* fv_env_build.py: setup_formal_env and revert_formal_env                 *)
(***************************************************************************)
WordChars ==
    {s_Lowers[i] : i \in 1..Len(s_Lowers)} \cup {s_Uppers[i] : i \in 1..Len(s_Uppers)}
        \cup {"0", "1", "2", "3", "4", "5", "6", "7", "8", "9", "_"}

\* re.search(rf"module\s+{top_name}\b", text)
HasModule(text, top_name) ==
    \E e \in HeadEnds(text, top_name) : e > Len(text) \/ text[e] \notin WordChars

\* Lines 291-296: the first file of rtl/ that declares the top module, or
\* None (every run here holds at most one such file)
LocateTop(f, top_name) ==
    LET C == {p \in GlobDotted(f, s_p_rtl) : HasModule(f[p], top_name)}
    IN  IF C = {} THEN None ELSE CHOOSE p \in C : TRUE

\* A run of setup_formal_env is the list of its file operations so far (a
\* write, a touch or a move), each with the project directory after it, the
\* directories that exist when it runs and the path it writes.  The first
\* entry is the directory the run starts from.
Cur(run) == run[Len(run)].fs
Then(run, d, p, f) == Append(run, [fs |-> f, dirs |-> d, path |-> p])

\* Lines 258-260: each file of `paths` in turn is moved into rtl/
RECURSIVE MoveSteps(_, _, _)
MoveSteps(run, d, paths) ==
    IF paths = <<>> THEN run
    ELSE MoveSteps(Then(run, d, s_p_rtl \o <<"/">> \o PathName(Head(paths)),
                        MoveFile(Cur(run), Head(paths),
                                 s_p_rtl \o <<"/">> \o PathName(Head(paths)))),
                   d, Tail(paths))

\* Lines 119-121: each wrapper in turn is written
RECURSIVE WriteSteps(_, _, _)
WriteSteps(run, d, files) ==
    IF files = <<>> THEN run
    ELSE WriteSteps(Then(run, d, Head(files).path,
                         WriteFile(Cur(run), Head(files).path, Head(files).text)),
                    d, Tail(files))

\* The stages of setup_formal_env, last stage first: each takes the run so
\* far and the directories that exist, adds its file operations and hands
\* the run to the stage that follows it in the source.
\* Lines 446-450: fv_adapter.sv
SetupAdapter(run, d, a) ==
    Then(run, d, s_p_fv_adapter,
         WriteFile(Cur(run), s_p_fv_adapter, generate_fv_adapter(Cur(run))))

\* Lines 426-443: scripts/ and fv_run.tcl
SetupRunScript(run, d, a) ==
    SetupAdapter(Then(run, MakeDirs(d, s_p_scripts), s_p_fv_run,
                      WriteFile(Cur(run), s_p_fv_run,
                                FvRunText(a.top_name, a.clocks, a.reset_name,
                                          a.reset_active_low))),
                 MakeDirs(d, s_p_scripts), a)

\* Lines 421-423: verif.f, opened before the files of verif/ are listed
SetupVerifList(run, d, a) ==
    SetupRunScript(Then(run, d, s_p_verif_f,
                        WriteFile(Cur(run), s_p_verif_f,
                                  VerifListText(WriteFile(Cur(run), s_p_verif_f, <<>>)))),
                   d, a)

\* Lines 417-418: the placeholders
SetupPlaceholders(run, d, a) ==
    SetupVerifList(
        Then(Then(run, d, s_p_checker,
                  TouchFile(Cur(run), s_p_checker)),
             d, s_p_interface_sv,
             TouchFile(TouchFile(Cur(run), s_p_checker), s_p_interface_sv)),
        d, a)

\* Lines 413-414: fv_bind.sv
SetupBind(run, d, a) ==
    SetupPlaceholders(Then(run, d, s_p_fv_bind,
                           WriteFile(Cur(run), s_p_fv_bind, FvBindText(a.top_name))),
                      d, a)

\* Lines 305-410: fv_env.sv, from the blocks of the top module and the
\* wrapper files the interfaces directory holds
SetupEnv(run, d, blocks, a) ==
    SetupBind(Then(run, d, s_p_fv_env,
                   WriteFile(Cur(run), s_p_fv_env,
                             FvEnvText(blocks[1], blocks[2], a.clocks, a.reset_name,
                                       a.reset_active_low, WrapperFiles(Cur(run))))),
              d, a)

\* The variant that ends the run when no file declares the top module.
SetupTop_needs_top(run, d, top_file_path, a) ==
    IF top_file_path # None
    THEN SetupEnv(WriteSteps(run, d, generate_interfaces_from_top(Cur(run)[top_file_path])),
                  d, extract_module_blocks(Cur(run)[top_file_path], a.top_name), a)
    ELSE run

\* Lines 298-303: the blocks of the top module and its wrappers, when the
\* top file is found
SetupTop(run, d, top_file_path, a) ==
    IF top_file_path # None
    THEN SetupEnv(WriteSteps(run, d, generate_interfaces_from_top(Cur(run)[top_file_path])),
                  d, extract_module_blocks(Cur(run)[top_file_path], a.top_name), a)
    ELSE SetupEnv(run, d, << <<>>, <<>> >>, a)

\* Lines 283-296: the directories of verif/, the two files touched first,
\* and the search for the top file
SetupVerif(run, d, a) ==
    SetupTop(Then(Then(run, d, s_p_fv_adapter, TouchFile(Cur(run), s_p_fv_adapter)),
                  d, s_p_fv_pkg,
                  TouchFile(TouchFile(Cur(run), s_p_fv_adapter), s_p_fv_pkg)),
             d,
             LocateTop(TouchFile(TouchFile(Cur(run), s_p_fv_adapter), s_p_fv_pkg),
                       a.top_name),
             a)

\* Lines 263-277: rtl.f, opened before the files of rtl/ are listed, and
\* the Makefile
SetupRtlList(run, d, a) ==
    SetupVerif(
        Then(Then(run, d, s_p_rtl_f,
                  WriteFile(Cur(run), s_p_rtl_f,
                            RtlListText(WriteFile(Cur(run), s_p_rtl_f, <<>>)))),
             d, s_p_makefile,
             WriteFile(WriteFile(Cur(run), s_p_rtl_f,
                                 RtlListText(WriteFile(Cur(run), s_p_rtl_f, <<>>))),
                       s_p_makefile, MakefileText)),
        MakeDirs(MakeDirs(d, s_p_checkers), s_p_interfaces), a)

\* Lines 256-260: rtl/ and the moves of the RTL files of the root
SetupMove(run, d, a) ==
    SetupRtlList(MoveSteps(run, MakeDirs(d, s_p_rtl),
                           SortedPaths(RtlFiles(Cur(run), <<>>) \ {s_p_snapshot})),
                 MakeDirs(d, s_p_rtl), a)

\* Lines 248-253: the snapshot of the RTL files of the root
SetupSnapshot(run, d, a) ==
    SetupMove(Then(run, d, s_p_snapshot,
                   WriteFile(Cur(run), s_p_snapshot,
                             JsonDump(SortedPaths(RtlFiles(Cur(run), <<>>))))),
              d, a)

\* setup_formal_env on the project directory (f0, d0): the directory after
\* each of its file operations in turn, with the directories that exist when
\* the operation runs and the path it writes.  The last entry is the
\* directory a run without failure leaves.
setup_formal_env(f0, d0, top_name, clocks, reset_name, reset_active_low) ==
    Tail(SetupSnapshot(<<[fs |-> f0, dirs |-> d0, path |-> <<>>]>>, d0,
                       [top_name |-> top_name, clocks |-> clocks,
                        reset_name |-> reset_name,
                        reset_active_low |-> reset_active_low]))

\* Lines 483-487: every file of the snapshot that rtl/ holds moves to the root
RECURSIVE MoveBack(_, _)
MoveBack(f, names) ==
    IF names = <<>> THEN f
    ELSE LET src == s_p_rtl \o <<"/">> \o Head(names)
         IN  MoveBack(IF src \in DOMAIN f THEN MoveFile(f, src, Head(names)) ELSE f,
                      Tail(names))

\* Lines 499-503 for one path: unlink a file, rmtree a directory
RemovePath(state, p) ==
    IF p \in DOMAIN state.fs
        THEN [fs |-> RemoveFile(state.fs, p), dirs |-> state.dirs]
    ELSE IF p \in state.dirs
        THEN [fs |-> RemoveTree(state.fs, p),
              dirs |-> {d \in state.dirs : d # p /\ ~StartsWith(d, p \o <<"/">>)}]
    ELSE state

RECURSIVE RemovePaths(_, _)
RemovePaths(state, paths) ==
    IF paths = <<>> THEN state
    ELSE RemovePaths(RemovePath(state, Head(paths)), Tail(paths))

\* Lines 478-503: with a snapshot, the files it names move back and the
\* generated paths are removed
RevertFrom(f1, d1) ==
    IF s_p_snapshot \notin DOMAIN f1 THEN [fs |-> f1, dirs |-> d1]
    ELSE RemovePaths([fs |-> MoveBack(f1, JsonLoad(f1[s_p_snapshot])), dirs |-> d1],
                     <<s_p_rtl_f, s_p_rtl, s_p_verif, s_p_scripts,
                       s_p_makefile, s_p_snapshot>>)

\* revert_formal_env on the project directory (f0, d0): jgproject goes first
revert_formal_env(f0, d0) ==
    IF s_p_jgproject \in d0
    THEN RevertFrom(RemoveTree(f0, s_p_jgproject),
                    {d \in d0 : d # s_p_jgproject /\ ~StartsWith(d, s_p_jgproject \o <<"/">>)})
    ELSE RevertFrom(f0, d0)
(***************************************************************************)
(* Runs of the environment generator on a project directory                *)
(***************************************************************************)
\* Declarations of the top file: parameters and no group; one group; two
\* groups, one named after its wrapper suffix; a file without `module top`.
Decls ==
    {s_decl_plain,
     s_decl_grp,
     s_decl_two,
     s_decl_other}

\* The arguments clocks and reset_active_low of a call
SetupArgs ==
    {[clocks |-> <<>>, reset_active_low |-> FALSE],
     [clocks |-> <<s_ck>>, reset_active_low |-> TRUE]}

\* The top file of the project: in rtl/ once a run has moved it there
TopPath(f) == IF s_p_rtl_top \in DOMAIN f THEN s_p_rtl_top ELSE s_p_top

InitEnv ==
    /\ \E d \in Decls : fs = [p \in {s_p_top} |-> d]
    /\ dirs = {}
    /\ env_call = [op |-> "none"]
    /\ env_setups = 0
    /\ env_failures = 0
    /\ IdleSig
    /\ IdleSeg
    /\ IdleVhdl
    /\ IdlePar
    /\ IdlePb

\* The outcomes of a call of setup_formal_env on the project directory
\* (f, d).  Either it runs to its end (failed_at = 0), or its file operation
\* k raises (OSError): the operations before it have taken effect, and so
\* have the makedirs that precede operation k.  A failing read leaves what
\* the failure of the next write leaves.
SetupOutcomes(steps, f) ==
    {[fs |-> IF k = 0 THEN steps[Len(steps)].fs ELSE IF k = 1 THEN f ELSE steps[k - 1].fs,
      dirs |-> IF k = 0 THEN steps[Len(steps)].dirs ELSE steps[k].dirs,
      failed_at |-> k,
      written |-> {steps[j].path : j \in 1..(IF k = 0 THEN Len(steps) ELSE k - 1)}] :
     k \in 0..Len(steps)}

\* A call of setup_formal_env.
Setup(clocks, reset_active_low) ==
    /\ env_setups < MaxSetups /\ UNCHANGED notEnv
    /\ env_failures < MaxFailures
    /\ \E o \in SetupOutcomes(setup_formal_env(fs, dirs, s_top, clocks, s_rst,
                                               reset_active_low), fs) :
           /\ fs' = o.fs
           /\ dirs' = o.dirs
           /\ env_call' = [op |-> "setup", clocks |-> clocks,
                           reset_active_low |-> reset_active_low,
                           failed_at |-> o.failed_at, written |-> o.written]
           /\ env_failures' = IF o.failed_at = 0 THEN env_failures ELSE env_failures + 1
    /\ env_setups' = env_setups + 1

\* A call of revert_formal_env.
Revert ==
    /\ UNCHANGED notEnv
    /\ \E o \in {revert_formal_env(fs, dirs)} :
           /\ fs' = o.fs
           /\ dirs' = o.dirs
    /\ env_call' = [op |-> "revert"]
    /\ UNCHANGED <<env_setups, env_failures>>

\* Between two calls the user edits the top file.
EditTop(d) ==
    /\ env_setups < MaxSetups /\ UNCHANGED notEnv
    /\ env_failures < MaxFailures
    /\ TopPath(fs) \notin DOMAIN fs \/ fs[TopPath(fs)] # d
    /\ fs' = WriteFile(fs, TopPath(fs), d)
    /\ env_call' = [op |-> "edit"]
    /\ UNCHANGED <<dirs, env_setups, env_failures>>

NextEnv ==
    \/ \E a \in SetupArgs : Setup(a.clocks, a.reset_active_low)
    \/ Revert
    \/ \E d \in Decls : EditTop(d)

SpecEnv == InitEnv /\ [][NextEnv]_vars

(***************************************************************************)
(* Claims about the Interface Segmenter                                    *)
(***************************************************************************)
\* The lines that open a group, and the k-th of them.
C1_Openers == {i \in 1..Len(port_lines) : IsInterfaceComment(Strip(port_lines[i]))}
C1_Opener(k) ==
    CHOOSE i \in C1_Openers : Cardinality({j \in C1_Openers : j <= i}) = k

\* The first terminator after line i (a comment, a blank line or `);`), or
\* one past the last line when there is none.
C1_End(i) ==
    LET T == {j \in (i + 1)..Len(port_lines) : IsTerminator(Strip(port_lines[j]))}
    IN  IF T = {} THEN Len(port_lines) + 1 ELSE MinOf(T)

\* The input lines between opener i and its terminator, parsed.
C1_Members(i) ==
    LET between == SubSeq(port_lines, i + 1, C1_End(i) - 1)
        inputs == SelectSeq(between, LAMBDA l : StartsWith(Strip(l), s_input))
    IN  [k \in 1..Len(inputs) |-> parse_sv_signal_info(inputs[k])]

\* C1: for a port block with N INTERFACE comments whose last group is closed
\* by a terminator, the result has exactly N groups, and the k-th group holds
\* exactly the input lines between the k-th INTERFACE comment and the next
\* terminator (a comment line, a blank line or `);`).
C1_GroupBoundary ==
    (/\ segPc = "done"
     /\ \A i \in C1_Openers : C1_End(i) <= Len(port_lines))
    => /\ Len(SegResult) = Cardinality(C1_Openers)
       /\ \A k \in 1..Len(SegResult) :
              k <= Cardinality(C1_Openers)
                  => SegResult[k].content = C1_Members(C1_Opener(k))

\* The name that the INTERFACE comment of line i gives its group
C13_Name(i) == NormalizeName(InterfaceLabel(Strip(port_lines[i])))

\* Line i is an INTERFACE comment that opens a group
C13_Opens(i) ==
    /\ IsInterfaceComment(Strip(port_lines[i]))
    /\ InterfaceLabel(Strip(port_lines[i])) # None

\* C13: a group that is still open at the end of the input (no comment, blank
\* line or `);` follows its INTERFACE comment) is the last group of the
\* result, with the input lines that follow the comment; and an INTERFACE
\* comment that the next INTERFACE comment follows at once gives a group of
\* its name with empty content.
C13_FlushRules ==
    segPc = "done" =>
        /\ \A i \in 1..Len(port_lines) :
               (C13_Opens(i) /\ C1_End(i) > Len(port_lines))
                   => /\ SegResult # <<>>
                      /\ SegResult[Len(SegResult)]
                             = [if_name |-> C13_Name(i), content |-> C1_Members(i)]
        /\ \A i \in 1..(Len(port_lines) - 1) :
               (C13_Opens(i) /\ IsInterfaceComment(Strip(port_lines[i + 1])))
                   => \E k \in 1..Len(SegResult) :
                          SegResult[k] = [if_name |-> C13_Name(i), content |-> <<>>]

\* C14: no two groups of the returned list have the same if_name.
C14_UniqueNames ==
    segPc = "done" =>
        \A j, k \in 1..Len(SegResult) :
            j # k => SegResult[j].if_name # SegResult[k].if_name

\* C16: parse_sv_interface_info does not raise (line 92 is the one statement
\* that can: it needs a current dictionary whenever the flag
\* inside_interface is set), and no member of a returned group has the name
\* None.
C16_MalformedDropped ==
    /\ inside_interface => current_if # 0
    /\ segPc = "done" =>
           \A k \in 1..Len(SegResult) :
               \A m \in 1..Len(SegResult[k].content) :
                   SegResult[k].content[m][1] # None

(***************************************************************************)
(* Claims about the Alternate-Syntax Translator                            *)
(***************************************************************************)
\* The names of the port entries that classify_vhdl_port_lines finds in the
\* VHDL port block, in order.
C2_DirectNames ==
    LET classified == classify_vhdl_port_lines(read_vhdl_port(vhdl_content))
        entries == SelectSeq(classified, LAMBDA e : e.type \in {"line", "last_line"})
    IN  [i \in 1..Len(entries) |-> entries[i].name]

\* C2: translating a VHDL declaration, extracting the port block of the
\* result and parsing each of its lines with the Signal Parser yields the
\* port names that classifying the VHDL port block yields, in the same order.
C2_RoundTrip ==
    vhdlPc = "done" =>
        SelectSeq(round_names, LAMBDA n : n # None) = C2_DirectNames

\* The lines of the translated module that hold the port block: the
\* Len(vhdl_ports) lines before the closing `  );` and `endmodule`.
C8_EmittedPortLine(k) ==
    LET L == SplitLines(sv_module)
    IN  L[Len(L) - 2 - Len(vhdl_ports) + k]

\* C8: every port declaration of the VHDL block, whatever its direction, is
\* emitted at its own position as a line that begins with `input` and ends
\* with the port's name (before the separating comma); comment and blank
\* lines are emitted as no declaration.
C8_PortsForcedToInput ==
    sv_module # None =>
        /\ Len(SplitLines(sv_module)) >= Len(vhdl_ports) + 3
        /\ C8_EmittedPortLine(0) = s_ind_open
        /\ \A k \in 1..Len(vhdl_ports) :
              IF vhdl_ports[k].decl
              THEN /\ StartsWith(Strip(C8_EmittedPortLine(k)), s_input \o <<" ">>)
                   /\ EndsWith(RStripSet(C8_EmittedPortLine(k), {","}),
                               <<" ">> \o vhdl_ports[k].name)
              ELSE ~StartsWith(Strip(C8_EmittedPortLine(k)), s_input)

C8_Witness ==
    /\ sv_module # None
    /\ Len(vhdl_ports) = 3
    /\ vhdl_ports[1].text = s_vp_d
    /\ vhdl_ports[2].text = s_vp_note
    /\ vhdl_ports[3].text = s_vp_q
    /\ C8_EmittedPortLine(3) = s_pfx_input \o <<" ", "q">>

\* The `parameter K = V` lines of the translated module.
C9_ParameterLines ==
    SelectSeq(SplitLines(sv_module), LAMBDA l : StartsWith(Strip(l), s_parameter))

\* C9: every emitted parameter line but the last ends with a comma, and the
\* last parameter line ends with none, also when comment or blank lines
\* follow the last generic.
C9_ParameterSeparators ==
    sv_module # None =>
        \A i \in 1..Len(C9_ParameterLines) :
            EndsWith(C9_ParameterLines[i], <<",">>) <=> (i < Len(C9_ParameterLines))

C11_Tokens == Tokens(Strip(RStripSet(Strip(SplitOn(line, s_cmt)[1]), {",", ";"})))

\* C11: for a line that holds a direction keyword and no name (`input`,
\* `input logic,`: `input` first, then nothing but type keywords)
\* parse_sv_signal_info returns (None, None).
C11_KeywordOnly ==
    (/\ sigPc = "done"
     /\ C11_Tokens # <<>>
     /\ C11_Tokens[1] = s_input
     /\ \A i \in 1..Len(C11_Tokens) : C11_Tokens[i] \in {s_input, s_logic, s_wire, s_reg})
        => sigResult = <<None, None>>

s__CL_integer_CL == <<" ",":"," ","i","n","t","e","g","e","r"," ",":">>

(***************************************************************************)
(* Claims about the Parameter Table Builder                                *)
(***************************************************************************)
\* The entries the lines of a block are to yield, in the order of the lines:
\* Entry(l) for a line l of the two forms, nothing for any other line.
C12_Expected(block, Entry(_)) ==
    Concat([i \in 1..Len(block) |->
               IF block[i].kind = "other" THEN <<>> ELSE <<Entry(block[i])>>])

\* C12 as stated: every line `parameter K = V,` and every line `K : Ty := V;`
\* yields (K, V), a line without `=` yields nothing, and the entries are in
\* the order of the lines.
C12_ParameterTable ==
    parPc = "done" =>
        param_list = C12_Expected(par_block, LAMBDA l : <<l.name, l.value>>)

\* C12 as the code has it: a line `parameter K = V,` yields (K, V); a line
\* `K : Ty := V;` is split at its first `=` like any other line and yields
\* (`K : Ty :`, `V;`); a line without `=` yields nothing; the entries are in
\* the order of the lines.
C12_ParameterTableFirstEquals ==
    parPc = "done" =>
        param_list = C12_Expected(par_block,
                         LAMBDA l : IF l.kind = "primary" THEN <<l.name, l.value>>
                                    ELSE <<l.name \o s__CL_integer_CL, l.value \o <<";">> >>)

C12_Witness ==
    /\ parPc = "done"
    /\ Len(par_block) = 3
    /\ par_block[1].text = s_pl_p
    /\ par_block[2].kind = "other"
    /\ par_block[3].text = s_pl_w
    /\ param_list = << <<<<"P">>, s_A_EQEQ_B>>, <<<<"W">>, <<"8">> >> >>

(***************************************************************************)
(* Claims about the environment generator                                  *)
(***************************************************************************)
\* The last call was a call of setup_formal_env that ran to its end.
SetupCompleted == env_call.op = "setup" /\ env_call.failed_at = 0

\* The groups of the top file as generate_interfaces_from_top finds them,
\* none when no file declares the top module.
GroupsOfTop(f) ==
    IF LocateTop(f, s_top) = None THEN <<>>
    ELSE InterfaceBlocks(ReadLines(f[LocateTop(f, s_top)]), <<>>, <<>>, <<>>, FALSE)

\* The paths of the five artifacts in the project directory f
C3_Artifacts(f) ==
    {s_p_fv_adapter, s_p_fv_pkg, s_p_fv_env, s_p_fv_bind}
        \cup {p \in DOMAIN f : /\ PathParent(p) = s_p_interfaces
                               /\ EndsWith(PathName(p), s__port_intfDOTsv)}

\* C3: a call of setup_formal_env, whether or not one of its file operations
\* fails, has written all of the artifacts (it ran to its end) or none of
\* them.
C3_AllOrNothing ==
    env_call.op = "setup" =>
        \/ env_call.failed_at = 0
        \/ env_call.written \cap C3_Artifacts(fs) = {}

\* The artifacts of f that differ from those of g
C4_Differing(f, g) ==
    {p \in C3_Artifacts(g) \ {s_p_fv_pkg} : p \notin DOMAIN f \/ f[p] # g[p]}

\* The project directory a run with the arguments of the last call leaves
\* when it starts from a directory that holds the top file only
C4_FreshRun ==
    Cur(setup_formal_env([p \in {s_p_top} |-> fs[s_p_rtl_top]], {}, s_top,
                         env_call.clocks, s_rst, env_call.reset_active_low))

\* C4: after a call that ran to its end, the wrapper, adapter, environment
\* and binding texts are those a run on the same declaration text and the
\* same arguments writes into an empty output directory, whatever an earlier
\* run left there.
C4_IndependentOfEarlierRuns ==
    (SetupCompleted /\ s_p_rtl_top \in DOMAIN fs) => C4_Differing(fs, C4_FreshRun) = {}

\* C5: after a call that ran to its end, fv_env.sv instantiates the adapter
\* if and only if the top file has at least one interface group.
C5_AdapterOnlyWithGroups ==
    SetupCompleted =>
        (Contains(fs[s_p_fv_env], s_fv_adapter_fv_adapterLPDOTSTRPSC) <=> GroupsOfTop(fs) # <<>>)

\* The lines of the adapter that declare a wrapper port, without indentation
\* and separator, and its assignments
C6_DriverPorts(adapter) ==
    LET decls == SelectSeq(ReadLines(adapter), LAMBDA l : Contains(l, s_DOTdriver_))
    IN  [i \in 1..Len(decls) |-> RStripSet(Strip(decls[i]), {","})]
C6_Assigns(adapter, instance) ==
    SelectSeq(ReadLines(adapter),
              LAMBDA l : StartsWith(l, s___assign_ \o instance \o <<".">>))
C6_AllAssigns(adapter) ==
    SelectSeq(ReadLines(adapter), LAMBDA l : StartsWith(l, s___assign_))

\* The assignments the adapter owes to a group
C6_Expected(g) ==
    [k \in 1..Len(SignalNames(g.signals)) |->
        s___assign_ \o g.name \o s__portDOT \o SignalNames(g.signals)[k]
        \o s_eq \o SignalNames(g.signals)[k] \o s_SCNL]

\* The adapter text against the groups
C6_Adapter(adapter, groups) ==
    /\ \A i \in 1..Len(groups) :
           /\ Cardinality({k \in 1..Len(C6_DriverPorts(adapter)) :
                              C6_DriverPorts(adapter)[k]
                                  = groups[i].name \o s__port_intfDOTdriver_
                                    \o groups[i].name \o s__port}) = 1
           /\ C6_Assigns(adapter, groups[i].name \o s__port) = C6_Expected(groups[i])
    /\ \A k \in 1..Len(C6_AllAssigns(adapter)) :
           \E i \in 1..Len(groups) :
               \E j \in 1..Len(C6_Expected(groups[i])) :
                   C6_AllAssigns(adapter)[k] = C6_Expected(groups[i])[j]

\* C6: after a call that ran to its end in a directory that holds the
\* wrappers of the groups of the top file and no other, the adapter declares
\* one port `<group>_port_intf.driver <group>_port` for every group and one
\* assignment `<group>_port.s = s` for every member s of the group, in the
\* order of the members, and no other assignment.
C6_AdapterPortsAndAssigns ==
    (/\ SetupCompleted
     /\ {WrapperFiles(fs)[i] : i \in 1..Len(WrapperFiles(fs))}
            = {WrapperPath(GroupsOfTop(fs)[i].name) : i \in 1..Len(GroupsOfTop(fs))})
        => C6_Adapter(fs[s_p_fv_adapter], GroupsOfTop(fs))

\* C7: after a call that ran to its end, fv_pkg.sv defines the macro
\* param_fields (the macro that is to bind the parameter names of the top
\* module).
C7_ParameterPackage ==
    SetupCompleted => Contains(fs[s_p_fv_pkg], s_BQdefine_param_fields)

s_module_top == <<"m","o","d","u","l","e"," ","t","o","p">>
s_module_fv_envNL__HSLPNL__RPNL__LPNL__RPS == <<"m","o","d","u","l","e"," ","f","v","_","e","n","v","\n"," "," ","#","(","\n"," "," ",")","\n"," "," ","(","\n"," "," ",")",";","\n","\n">>
s_module_fv_adapterNL__HSLPNL__RPNL == <<"m","o","d","u","l","e"," ","f","v","_","a","d","a","p","t","e","r","\n"," "," ","#","(","\n"," "," ",")","\n">>
s_bind_top_fv_env_fv_envLPDOTSTRPSCNL == <<"b","i","n","d"," ","t","o","p"," ","f","v","_","e","n","v"," ","f","v","_","e","n","v","(",".","*",")",";","\n">>
s_module_top_LP == <<"m","o","d","u","l","e"," ","t","o","p"," ","(">>

\* The text of the top file of the project
C15_TopText == fs[TopPath(fs)]

\* The text between the first `(` and the first `);` of a declaration,
\* without outer whitespace
C15_FirstParenBlock(text) ==
    Strip(SubSeq(text, Find(text, <<"(">>, 1) + 1, Find(text, s_close, 1) - 1))

PortListLines(text) ==
    LET L == ReadLines(text)
        O == {i \in 1..Len(L) : StartsWith(Strip(L[i]), <<"(">>)}
        C == {i \in 1..Len(L) : O # {} /\ i > MinOf(O) /\ Strip(L[i]) = s_close}
    IN  IF O = {} \/ C = {} THEN None
        ELSE SubSeq(L, MinOf(O) + 1, MinOf(C) - 1)

\* The declaration a port-list line holds, without separator and comment;
\* empty for a comment line and for a blank line
PortEntry(ln) == Strip(RStripSet(Strip(SplitOn(ln, s_cmt)[1]), {","}))

C17_Declarations ==
    SelectSeq([i \in 1..Len(PortListLines(pb_env)) |-> PortEntry(PortListLines(pb_env)[i])],
              LAMBDA e : e # <<>>)

C17_Expected ==
    LET D == SelectSeq(pb_lines, LAMBDA l : l.decl)
    IN  [i \in 1..Len(D) |-> s_input_ \o D[i].rest]

\* C17: the port list of fv_env holds one declaration per port line of the
\* block, in the order of the block, each with direction `input` followed by
\* the type, range and name of the port line.
C17_EnvPortList ==
    pbPc \in {"adapter", "done"} =>
        /\ PortListLines(pb_env) # None
        /\ C17_Declarations = C17_Expected

\* The same over the port lines that have white space after the direction
C17_EnvPortListSpaced ==
    (pbPc \in {"adapter", "done"}
       /\ \A i \in 1..Len(pb_lines) : pb_lines[i].text # s_outputLB3CL0RB_rCM) =>
        /\ PortListLines(pb_env) # None
        /\ C17_Declarations = C17_Expected

C20_Lines == PortListLines(pb_adapter)
C20_Entries == {i \in 1..Len(C20_Lines) : PortEntry(C20_Lines[i]) # <<>>}
C20_HasComma(ln) == EndsWith(Strip(SplitOn(ln, s_cmt)[1]), <<",">>)

\* C20: in the port list of fv_adapter every entry but the last one before
\* `);` is followed by a comma, the last entry by none, and neither a
\* comment line nor the opening `(` carries a comma.
C20_AdapterSeparators ==
    pbPc = "done" =>
        /\ C20_Lines # None
        /\ \A i \in C20_Entries : C20_HasComma(C20_Lines[i]) <=> i # MaxOf(C20_Entries)
        /\ \A i \in 1..Len(C20_Lines) :
               PortEntry(C20_Lines[i]) = <<>> => ~EndsWith(Strip(C20_Lines[i]), <<",">>)
        /\ \E i \in 1..Len(ReadLines(pb_adapter)) : Strip(ReadLines(pb_adapter)[i]) = <<"(">>

\* The same for at least one group and a port block that ends with a
\* declaration
C20_AdapterSeparatorsWithGroups ==
    (pbPc = "done" /\ pb_groups # <<>> /\ pb_lines # <<>>
       /\ pb_lines[Len(pb_lines)].decl) =>
        /\ C20_Lines # None
        /\ \A i \in C20_Entries : C20_HasComma(C20_Lines[i]) <=> i # MaxOf(C20_Entries)
        /\ \A i \in 1..Len(C20_Lines) :
               PortEntry(C20_Lines[i]) = <<>> => ~EndsWith(Strip(C20_Lines[i]), <<",">>)
        /\ \E i \in 1..Len(ReadLines(pb_adapter)) : Strip(ReadLines(pb_adapter)[i]) = <<"(">>

(***************************************************************************)
(* Claims about the two segmenters                                         *)
(***************************************************************************)
\* The groups generate_interfaces_from_top writes wrappers from, for the
\* lines of the port block: the name and the member names of each
C18_WrapperGroups ==
    LET dict == InterfaceBlocks(port_lines, <<>>, <<>>, <<>>, FALSE)
    IN  [i \in 1..Len(dict) |-> <<dict[i].name, SignalNames(dict[i].signals)>>]

\* The groups parse_sv_interface_info returns: the name and the member
\* names of each
C18_ParserGroups ==
    [k \in 1..Len(SegResult) |->
        <<SegResult[k].if_name,
          [m \in 1..Len(SegResult[k].content) |-> SegResult[k].content[m][1]]>>]

\* C18: the groups generate_interfaces_from_top writes wrappers from have
\* the names and the ordered member names of the groups that
\* parse_sv_interface_info returns for the same lines.
C18_SegmentersAgree ==
    segPc = "done" => C18_WrapperGroups = C18_ParserGroups

\* The same for lines where every member line is a complete `input` line and
\* every group of the parser has a member and a name of its own
C18_SegmentersAgreeOnInputs ==
    (/\ segPc = "done"
     /\ \A i \in 1..Len(port_lines) : port_lines[i] \notin {s_out_z, s_input \o <<",">>}
     /\ \A k \in 1..Len(SegResult) : SegResult[k].content # <<>>
     /\ \A j, k \in 1..Len(SegResult) :
            j # k => SegResult[j].if_name # SegResult[k].if_name)
        => C18_WrapperGroups = C18_ParserGroups

(***************************************************************************)
(* Claims about revert_formal_env                                          *)
(***************************************************************************)
\* C19: after a call of revert_formal_env, the RTL file that the project
\* root held before the first setup is in the project root again, whatever
\* calls came before.
C19_RevertRestores ==
    env_call.op = "revert" => s_p_top \in DOMAIN fs

\* The same when at most one call of setup_formal_env came before
C19_RevertRestoresOneSetup ==
    (env_call.op = "revert" /\ env_setups <= 1) =>
        /\ s_p_top \in DOMAIN fs
        /\ s_p_rtl_top \notin DOMAIN fs

====
